---- MODULE Spec2Model ----
(***************************************************************************)
(* The tournament clock engine of PokerSocketServer.                       *)
(*                                                                         *)
(* The engine of src/server.js (lines 126-457): calculateState, the        *)
(* per-tournament interval installed by runTournamentLoop, the webhook     *)
(* POST /api/webhook/emit and the join-tournament recovery; and the        *)
(* calculateState of the earlier engine in src/unnamed/part_000.           *)
(*                                                                         *)
(* Times are integers in milliseconds, as Date.now() and getTime() give    *)
(* them.  A JavaScript number that may be NaN is a record [nan, v].        *)
(***************************************************************************)
EXTENDS Integers, Sequences, FiniteSets, TLC

\* ------------------------------------------------------------------------
\* Bounds of the model
\* ------------------------------------------------------------------------
MaxLevels == 3       \* longest level list handed to calculateState
MaxSteps == 14       \* calculator: instants 0, TimeStep, .. MaxSteps * TimeStep
MaxRecords == 2      \* engine: clock records created in one run
MaxFetches == 1      \* engine: external fetches in flight at once

\* ------------------------------------------------------------------------
\* Values
\* ------------------------------------------------------------------------
MsPerSec == 1000

\* setInterval(..., 1000): the period of a tournament's interval, in ms.
TickPeriod == 1000

TimeStep == MsPerSec \div 2

Level(n, d) == [levelNumber |-> n, durationSeconds |-> d]

\* A start-time fact as the engine receives it: absent (undefined or the
\* empty string), null, a string Date cannot parse, or an ISO instant.
Absent == [kind |-> "absent", ms |-> 0]
Null == [kind |-> "null", ms |-> 0]
Unparseable == [kind |-> "invalid", ms |-> 0]
Iso(t) == [kind |-> "iso", ms |-> t]

NaN == [nan |-> TRUE, v |-> 0]
Num(x) == [nan |-> FALSE, v |-> x]

\* !startTimeStr: true of undefined, the empty string and null.
Falsy(s) == s.kind \in {"absent", "null"}

\* new Date(startTimeStr).getTime(): the epoch for null, NaN for undefined
\* and for a string that is no date.
DateGetTime(s) ==
    IF s.kind = "iso" THEN Num(s.ms)
    ELSE IF s.kind = "null" THEN Num(0)
    ELSE NaN

\* now - startTime, with now an integer and startTime possibly NaN.
JsSub(n, x) == IF x.nan THEN NaN ELSE Num(n - x.v)

\* Math.max(0, x): NaN when x is NaN.
MathMax0(x) == IF x.nan THEN NaN ELSE Num(IF x.v > 0 THEN x.v ELSE 0)

\* x < n in JavaScript: false when x is NaN.
JsLessOrEqual(x, n) == ~x.nan /\ x.v <= n
JsLess(x, n) == ~x.nan /\ x.v < n

\* Math.ceil(n / d) and Math.floor(n / d) for an integer n and d > 0.
MathCeil(n, d) == -((-n) \div d)
MathFloor(n, d) == n \div d

\* levels.sort((a, b) => a.levelNumber - b.levelNumber): a stable sort.
RECURSIVE InsertLevel(_, _)
InsertLevel(sorted, x) ==
    IF sorted = <<>> THEN <<x>>
    ELSE IF sorted[Len(sorted)].levelNumber <= x.levelNumber
         THEN Append(sorted, x)
         ELSE Append(InsertLevel(SubSeq(sorted, 1, Len(sorted) - 1), x),
                     sorted[Len(sorted)])

KeepOrder(levels) == levels
RECURSIVE SortLevels(_)
SortLevels(levels) ==
    IF levels = <<>> THEN <<>>
    ELSE InsertLevel(SortLevels(SubSeq(levels, 1, Len(levels) - 1)),
                     levels[Len(levels)])

\* The derived state: null, or {finished, currentLevel, timeRemaining}.
NullState == [null |-> TRUE, finished |-> FALSE, currentLevel |-> 0, timeRemaining |-> 0]
DerivedState(f, l, r) == [null |-> FALSE, finished |-> f, currentLevel |-> l, timeRemaining |-> r]

\* ------------------------------------------------------------------------
\* calculateState of src/server.js
\* ------------------------------------------------------------------------
\* if (!startTimeStr || !levels || levels.length === 0) return null;
InsufficientData(startTimeStr, levels) ==
    Falsy(startTimeStr) \/ Len(levels) = 0

\* const elapsedMs = Math.max(0, now - startTime);
ElapsedMsReversed(now_, startTimeStr) ==
    LET startTime == DateGetTime(startTimeStr)
    IN IF startTime.nan THEN NaN ELSE MathMax0(Num(startTime.v - now_))
ElapsedMs(now_, startTimeStr) == MathMax0(JsSub(now_, DateGetTime(startTimeStr)))

\* Math.ceil((levelEndMs - elapsedMs) / 1000)
TimeRemainingFloor(levelEndMs, elapsedMs) == MathFloor(levelEndMs - elapsedMs.v, MsPerSec)
TimeRemainingSeconds(levelEndMs, elapsedMs) == MathCeil(levelEndMs - elapsedMs.v, MsPerSec)

\* return { finished: true, currentLevel: sortedLevels.length, timeRemaining: 0 };
FinishedStateLastNumber(sortedLevels) ==
    DerivedState(TRUE, sortedLevels[Len(sortedLevels)].levelNumber, 0)
FinishedState(sortedLevels) == DerivedState(TRUE, Len(sortedLevels), 0)

\* The for loop over sortedLevels, from index i with levelStartMs accumulated.
RECURSIVE LevelWalk(_, _, _, _)
LevelWalk(sortedLevels, i, levelStartMs, elapsedMs) ==
    IF i > Len(sortedLevels) THEN FinishedState(sortedLevels)
    ELSE LET lvl == sortedLevels[i]
             durationMs == lvl.durationSeconds * MsPerSec
             levelEndMs == levelStartMs + durationMs
         IN IF JsLess(elapsedMs, levelEndMs)
            THEN DerivedState(FALSE, lvl.levelNumber,
                              TimeRemainingSeconds(levelEndMs, elapsedMs))
            ELSE LevelWalk(sortedLevels, i + 1, levelStartMs + durationMs, elapsedMs)

calculateState(startTimeStr, levels, now_) ==
    IF InsufficientData(startTimeStr, levels) THEN NullState
    ELSE LevelWalk(SortLevels(levels), 1, 0, ElapsedMs(now_, startTimeStr))

\* The level list as calculateState leaves it: sorted in place unless the
\* function returned at its first line.
LevelsAfterConsumed(startTimeStr, levels) ==
    IF InsufficientData(startTimeStr, levels) THEN levels ELSE Tail(SortLevels(levels))
LevelsAfterCalculate(startTimeStr, levels) ==
    IF InsufficientData(startTimeStr, levels) THEN levels ELSE SortLevels(levels)

\* ------------------------------------------------------------------------
\* calculateState of src/unnamed/part_000
\* ------------------------------------------------------------------------
\* const elapsedMs = now - startTime;
ElapsedMs_part000(now_, startTimeStr) == JsSub(now_, DateGetTime(startTimeStr))

\* return { finished: true, currentLevel: sortedLevels.length + 1, timeRemaining: 0 };
FinishedState_part000(sortedLevels) == DerivedState(TRUE, Len(sortedLevels) + 1, 0)

RECURSIVE LevelWalk_part000(_, _, _, _)
LevelWalk_part000(sortedLevels, i, levelStartMs, elapsedMs) ==
    IF i > Len(sortedLevels) THEN FinishedState_part000(sortedLevels)
    ELSE LET lvl == sortedLevels[i]
             durationMs == lvl.durationSeconds * MsPerSec
         IN IF JsLess(elapsedMs, levelStartMs + durationMs)
            THEN DerivedState(FALSE, lvl.levelNumber,
                              MathCeil(levelStartMs + durationMs - elapsedMs.v, MsPerSec))
            ELSE LevelWalk_part000(sortedLevels, i + 1, levelStartMs + durationMs, elapsedMs)

calculateState_part000(startTimeStr, levels, now_) ==
    IF InsufficientData(startTimeStr, levels) THEN NullState
    ELSE LevelWalk_part000(SortLevels(levels), 1, 0, ElapsedMs_part000(now_, startTimeStr))

\* ------------------------------------------------------------------------
\* State
\* ------------------------------------------------------------------------
VARIABLES
    now,                \* Date.now(), in ms
    heap,               \* the clock records ever created (objects `active`), by reference
    timers,             \* the intervals ever installed by setInterval, by handle
    activeTournaments,  \* the registry: tournament id -> reference into heap, 0 when absent
    fetches,            \* calls of getTournamentFromApi in flight
    emitted,            \* what the last step published, in order
    lastOp,             \* the handler or callback that made the last step
    stopped,            \* per id: "finished" since a tick finished it, "paused" since a
                        \* pause/finish command; emptied by a start/resume command and
                        \* by every seeding of a record
    calc,               \* one call of calculateState: its inputs, and its result once made
    displays,           \* the Map displays: display code -> socket id, "" when absent
    displayKeys,        \* the keys of displays in insertion order, as entries() gives them
    sockets,            \* per socket id: "none" before it connects, "open" while it is in
                        \* io.sockets.sockets, "closed" after its disconnect
    rooms               \* per socket id: the rooms the socket has joined

displayVars == <<displays, displayKeys, sockets, rooms>>
engineVars ==
    <<now, heap, timers, activeTournaments, fetches, emitted, lastOp, stopped, displayVars>>
vars ==
    <<now, heap, timers, activeTournaments, fetches, emitted, lastOp, stopped, calc,
      displayVars>>

Ids == {"T1"}
\* The registry is a Map keyed by any tournament id: a second id, for the
\* behaviours with two tournaments.
AllIds == Ids \cup {"T2"}
Sockets == {"s1"}

\* Display pairing: the socket ids of the connections that take part in it, the
\* codes Math.random() can give, and the tournaments a display can be linked to.
Connections == {"c1", "c2", "c3"}
DisplayIds == {"A1B2C3", "D4E5F6"}
LinkTournaments == {"T1", "T2"}
\* The code a client of the engine is given when it registers as a display.
EngineDisplayIds == {"A1B2C3"}

\* One room for every tournament: the id left out of the room name.
tournamentRoomWithoutId(id) == "tournament"

\* const tournamentRoom = (id) => `tournament:${id}`;
tournamentRoom(id) == "tournament:" \o id

\* One published message: io.to(room).emit(event, {type, level | currentLevel, timeLeft}),
\* or socket.emit(...) to one connection when sock is not "", or io.emit(...)
\* to every connection when room and sock are "".  `except` is the sender that
\* socket.to(room).emit(...) leaves out, "" otherwise.
Event(room, sock, event, type, level, timeLeft) ==
    [room |-> room, sock |-> sock, event |-> event, type |-> type,
     level |-> level, timeLeft |-> timeLeft, except |-> ""]

TimerSync(room, st) == Event(room, "", "timer-sync", "", st.currentLevel, st.timeRemaining)
UpdateLevel(room, st) == Event(room, "", "tournament-control", "update-level", st.currentLevel, 0)
FinishEvent(room) == Event(room, "", "tournament-control", "finish", 0, 0)

\* The last step: its handler, the tournament id it was for, for a tick the
\* timer that fired and what calculateState returned to it, and the error that
\* escaped the handler ("" when none did).
Op(op, id, timer) == [op |-> op, id |-> id, timer |-> timer, derived |-> "", error |-> ""]
TickOp(id, timer, st) ==
    [op |-> "tick", id |-> id, timer |-> timer,
     derived |-> IF st.null THEN "null" ELSE IF st.finished THEN "finished" ELSE "running",
     error |-> ""]
Threw(o, e) == [o EXCEPT !.error = e]

\* The object literal { id, startTime, levels, cachedCurrentLevel, timerInterval: null }.
ClockRecordFromLevelOne(id, startTime, levels, currentLevel) ==
    [id |-> id, startTime |-> startTime, levels |-> levels,
     cachedCurrentLevel |-> 1, timerInterval |-> 0]
ClockRecord(id, startTime, levels, currentLevel) ==
    [id |-> id, startTime |-> startTime, levels |-> levels,
     cachedCurrentLevel |-> currentLevel, timerInterval |-> 0]

\* ------------------------------------------------------------------------
\* runTournamentLoop of src/server.js
\* ------------------------------------------------------------------------
\* clearInterval(handle): null (0) is ignored.
clearInterval(tm, handle) ==
    IF handle = 0 THEN tm ELSE [tm EXCEPT ![handle].live = FALSE]

\* The part of runTournamentLoop outside the callback: look the record up,
\* clear the interval that record holds, install a new one that closes over
\* the record, store the handle in the record.
runTournamentLoop(tournamentId, reg, hp, tm) ==
    LET active == reg[tournamentId]
    IN IF active = 0 THEN [heap |-> hp, timers |-> tm]
       ELSE LET cleared == clearInterval(tm, hp[active].timerInterval)
                handle == Len(cleared) + 1
            IN [heap |-> [hp EXCEPT ![active].timerInterval = handle],
                timers |-> Append(cleared,
                                  [tournamentId |-> tournamentId, active |-> active,
                                   live |-> TRUE])]

\* A record that no live interval closes over and the registry does not hold
\* is unreachable: the runtime collects it, and the heap keeps a tombstone.
Tombstone == ClockRecord("", Absent, <<>>, 0)
Reachable(a, reg, tm) ==
    \/ \E id \in DOMAIN reg : reg[id] = a
    \/ \E i \in 1..Len(tm) : tm[i].live /\ tm[i].active = a
Collect(hp, reg, tm) ==
    [a \in 1..Len(hp) |-> IF Reachable(a, reg, tm) THEN hp[a] ELSE Tombstone]

\* What a tick publishes for a derived state st, given the level the record
\* has cached: nothing (null), finish, or [update-level,] timer-sync.
TickEmitsElseIf(room, st, cachedCurrentLevel) ==
    IF st.null THEN <<>>
    ELSE IF st.finished THEN <<FinishEvent(room)>>
    ELSE IF st.currentLevel # cachedCurrentLevel THEN <<UpdateLevel(room, st)>>
    ELSE <<TimerSync(room, st)>>
TickEmitsOnIncrease(room, st, cachedCurrentLevel) ==
    IF st.null THEN <<>>
    ELSE IF st.finished THEN <<FinishEvent(room)>>
    ELSE (IF st.currentLevel > cachedCurrentLevel THEN <<UpdateLevel(room, st)>> ELSE <<>>)
         \o <<TimerSync(room, st)>>
TickEmits(room, st, cachedCurrentLevel) ==
    IF st.null THEN <<>>
    ELSE IF st.finished THEN <<FinishEvent(room)>>
    ELSE (IF st.currentLevel # cachedCurrentLevel THEN <<UpdateLevel(room, st)>> ELSE <<>>)
         \o <<TimerSync(room, st)>>

\* The interval callback of timer i: it works on the record it closed over,
\* and on the registry entry of its tournament id.
Tick(i) ==
    /\ i \in 1..Len(timers)
    /\ timers[i].live
    /\ LET tournamentId == timers[i].tournamentId
           a == timers[i].active
           active == heap[a]
           st == calculateState(active.startTime, active.levels, now)
           sorted == LevelsAfterCalculate(active.startTime, active.levels)
       IN /\ emitted' = TickEmits(tournamentRoom(tournamentId), st, active.cachedCurrentLevel)
          /\ lastOp' = TickOp(tournamentId, i, st)
          /\ IF st.null
             THEN UNCHANGED <<heap, timers, activeTournaments, stopped>>
             ELSE IF st.finished
             THEN /\ timers' = clearInterval(timers, active.timerInterval)
                  /\ activeTournaments' = [activeTournaments EXCEPT ![tournamentId] = 0]
                  /\ heap' = Collect([heap EXCEPT ![a].levels = sorted],
                                     activeTournaments', timers')
                  /\ stopped' = [stopped EXCEPT ![tournamentId] = @ \cup {"finished"}]
             ELSE /\ heap' = [heap EXCEPT ![a].levels = sorted,
                                          ![a].cachedCurrentLevel = st.currentLevel]
                  /\ UNCHANGED <<timers, activeTournaments, stopped>>
    /\ UNCHANGED <<now, fetches, calc, displayVars>>

\* ------------------------------------------------------------------------
\* POST /api/webhook/emit of src/server.js
\* ------------------------------------------------------------------------
\* The timing facts the external system supplies (in _internalState, or in the
\* durable record): a one-level and an unsorted two-level ladder started at 0,
\* a start time Date cannot parse, no levels; and, in a durable record, no
\* start time.
Ladders == {<<Level(1, 1)>>, <<Level(2, 1), Level(1, 1)>>}
TimingFacts ==
    {[startTime |-> Iso(0), levels |-> l] : l \in Ladders}
    \cup {[startTime |-> Unparseable, levels |-> <<Level(1, 1)>>],
          [startTime |-> Iso(0), levels |-> <<>>]}
NoStartTime == [startTime |-> Absent, levels |-> <<Level(1, 1)>>]
CurrentLevels == {1, 2}

InternalStates ==
    {[startTime |-> f.startTime, levels |-> f.levels, currentLevel |-> c] :
        f \in TimingFacts, c \in CurrentLevels}

\* The instant at which every ladder started at 0 has run out: from then on
\* calculateState returns the same for every later instant.
RECURSIVE TotalMs(_)
TotalMs(levels) ==
    IF levels = <<>> THEN 0
    ELSE levels[1].durationSeconds * MsPerSec + TotalMs(Tail(levels))
ClockEnd == CHOOSE m \in {TotalMs(l) : l \in Ladders} : \A l \in Ladders : TotalMs(l) <= m

NoInternal == [startTime |-> Absent, levels |-> <<>>, currentLevel |-> 0]

\* req.body: tournamentId and event ("" when missing), data (hasData), data.type
\* and data._internalState (hasInternal).
ControlTypes == {"start", "resume", "pause", "finish", "update-level"}
WebhookBody(t, e, d, ty) ==
    [tournamentId |-> t, event |-> e, hasData |-> d, type |-> ty,
     hasInternal |-> FALSE, internal |-> NoInternal]
WebhookBodies ==
    {WebhookBody("", "tournament-control", TRUE, "start")}
    \cup {WebhookBody(t, "", TRUE, "start") : t \in Ids}
    \cup {WebhookBody(t, "player-action", TRUE, "") : t \in Ids}
    \cup {WebhookBody(t, "tournament-control", FALSE, "") : t \in Ids}
    \cup {WebhookBody(t, "tournament-control", TRUE, ty) : t \in Ids, ty \in ControlTypes}
    \cup
    {[tournamentId |-> t, event |-> "tournament-control", hasData |-> TRUE, type |-> ty,
      hasInternal |-> TRUE, internal |-> in] :
        t \in Ids, ty \in {"start", "resume"}, in \in InternalStates}

\* io.to(room).emit(event, data)
Broadcast(body) ==
    <<Event(tournamentRoom(body.tournamentId), "", body.event,
            IF body.hasData THEN body.type ELSE "", 0, 0)>>

\* if (!tournamentId || !event) return res.status(400)
WebhookRejected(body) ==
    /\ body.tournamentId = "" \/ body.event = ""
    /\ emitted' = <<>>
    /\ lastOp' = Op("webhook-400", body.tournamentId, 0)
    /\ UNCHANGED <<now, heap, timers, activeTournaments, fetches, stopped, calc, displayVars>>

\* Any other event, or a control type the handler does not intercept: relayed only.
\* A tournament-control event without data throws at data.type, after the relay.
WebhookRelayed(body) ==
    /\ body.tournamentId # "" /\ body.event # ""
    /\ \/ body.event # "tournament-control"
       \/ ~body.hasData
       \/ body.type \notin {"start", "resume", "pause", "finish"}
    /\ emitted' = Broadcast(body)
    /\ lastOp' = IF body.event = "tournament-control" /\ ~body.hasData
                 THEN Threw(Op("webhook-500", body.tournamentId, 0), "TypeError")
                 ELSE Op("webhook-relay", body.tournamentId, 0)
    /\ UNCHANGED <<now, heap, timers, activeTournaments, fetches, stopped, calc, displayVars>>

IsControl(body, types) ==
    /\ body.tournamentId # "" /\ body.event = "tournament-control"
    /\ body.hasData /\ body.type \in types

\* start/resume with data._internalState: a new record replaces the registry
\* entry and runTournamentLoop is called.
WebhookStart(body) ==
    /\ IsControl(body, {"start", "resume"})
    /\ body.hasInternal
    /\ Len(heap) < MaxRecords
    /\ LET tournamentId == body.tournamentId
           active == ClockRecord(tournamentId, body.internal.startTime,
                                 body.internal.levels, body.internal.currentLevel)
           hp == Append(heap, active)
           reg == [activeTournaments EXCEPT ![tournamentId] = Len(hp)]
           run == runTournamentLoop(tournamentId, reg, hp, timers)
       IN /\ heap' = run.heap
          /\ timers' = run.timers
          /\ activeTournaments' = reg
          /\ stopped' = [stopped EXCEPT ![tournamentId] = {}]
          /\ emitted' = Broadcast(body)
          /\ lastOp' = Op("webhook-start", tournamentId, 0)
    /\ UNCHANGED <<now, fetches, calc, displayVars>>

\* A call of getTournamentFromApi goes in flight.  The calls in flight complete
\* in any order, so their order in the model carries no information: fallback
\* calls are kept before join calls.
Fetch(kind, tournamentId, sock) == [kind |-> kind, tournamentId |-> tournamentId, sock |-> sock]
IssueFetch(q, f) == IF f.kind = "fallback" THEN <<f>> \o q ELSE Append(q, f)

\* start/resume without _internalState: when the registry has no record, the
\* tournament is fetched and the handler answers without waiting.
WebhookStartFallback(body) ==
    /\ IsControl(body, {"start", "resume"})
    /\ ~body.hasInternal
    /\ LET tournamentId == body.tournamentId
       IN /\ IF activeTournaments[tournamentId] = 0
             THEN /\ Len(fetches) < MaxFetches
                  /\ fetches' = IssueFetch(fetches, Fetch("fallback", tournamentId, ""))
             ELSE UNCHANGED fetches
          /\ stopped' = [stopped EXCEPT ![tournamentId] = {}]
          /\ emitted' = Broadcast(body)
          /\ lastOp' = Op("webhook-start", tournamentId, 0)
    /\ UNCHANGED <<now, heap, timers, activeTournaments, calc, displayVars>>

\* pause/finish: if (active && active.timerInterval) { clearInterval; delete }
WebhookPause(body) ==
    /\ IsControl(body, {"pause", "finish"})
    /\ LET tournamentId == body.tournamentId
           a == activeTournaments[tournamentId]
       IN /\ IF a # 0 /\ heap[a].timerInterval # 0
             THEN /\ timers' = clearInterval(timers, heap[a].timerInterval)
                  /\ activeTournaments' = [activeTournaments EXCEPT ![tournamentId] = 0]
                  /\ heap' = Collect(heap, activeTournaments', timers')
             ELSE UNCHANGED <<heap, timers, activeTournaments>>
          /\ stopped' = [stopped EXCEPT ![tournamentId] = @ \cup {"paused"}]
          /\ emitted' = Broadcast(body)
          /\ lastOp' = Op("webhook-pause", tournamentId, 0)
    /\ UNCHANGED <<now, fetches, calc, displayVars>>

WebhookEmit(body) ==
    \/ WebhookRejected(body)
    \/ WebhookRelayed(body)
    \/ WebhookStart(body)
    \/ WebhookStartFallback(body)
    \/ WebhookPause(body)

\* ------------------------------------------------------------------------
\* getTournamentFromApi and the handlers that wait for it (src/server.js)
\* ------------------------------------------------------------------------
Statuses == {"Running", "running", "Paused"}

\* The body of an error response, returned without the `if (!res.ok)` test.
ApiErrorBody == [ok |-> TRUE, startTime |-> Absent, status |-> "", currentLevel |-> 0,
                 levels |-> <<>>]

\* What getTournamentFromApi resolves to: null (not ok, or the fetch threw),
\* or the durable record t.
ApiNull == [ok |-> FALSE, startTime |-> Absent, status |-> "", currentLevel |-> 0,
            levels |-> <<>>]
ApiResponses ==
    {ApiNull} \cup
    {[ok |-> TRUE, startTime |-> f.startTime, status |-> st, currentLevel |-> c,
      levels |-> f.levels] :
        f \in TimingFacts \cup {NoStartTime}, st \in Statuses, c \in CurrentLevels}

RemoveAt(q, k) == SubSeq(q, 1, k - 1) \o SubSeq(q, k + 1, Len(q))

\* .then(t => { if (t && t.startTime) { activeTournaments.set(...); runTournamentLoop } })
FallbackFetched(k, t) ==
    /\ k \in 1..Len(fetches)
    /\ fetches[k].kind = "fallback"
    /\ LET tournamentId == fetches[k].tournamentId
       IN /\ IF t.ok /\ ~Falsy(t.startTime)
             THEN /\ Len(heap) < MaxRecords
                  /\ LET hp == Append(heap, ClockRecord(tournamentId, t.startTime, t.levels,
                                                        t.currentLevel))
                         reg == [activeTournaments EXCEPT ![tournamentId] = Len(hp)]
                         run == runTournamentLoop(tournamentId, reg, hp, timers)
                     IN /\ heap' = run.heap
                        /\ timers' = run.timers
                        /\ activeTournaments' = reg
                        /\ stopped' = [stopped EXCEPT ![tournamentId] = {}]
             ELSE UNCHANGED <<heap, timers, activeTournaments, stopped>>
          /\ emitted' = <<>>
          /\ lastOp' = Op("fallback-fetched", tournamentId, 0)
    /\ fetches' = RemoveAt(fetches, k)
    /\ UNCHANGED <<now, calc, displayVars>>

\* The end of join-tournament: if (active) { calculateState; socket.emit("timer-sync") }.
\* a is the reference the handler holds (0 when it holds none).
JoinSyncEmits(sock, tournamentId, a, hp) ==
    IF a = 0 THEN <<>>
    ELSE LET currentState == calculateState(hp[a].startTime, hp[a].levels, now)
         IN IF ~currentState.null /\ ~currentState.finished
            THEN <<Event(tournamentRoom(tournamentId), sock, "timer-sync", "",
                         currentState.currentLevel, currentState.timeRemaining)>>
            ELSE <<>>

JoinSyncHeap(a, hp) ==
    IF a = 0 THEN hp
    ELSE [hp EXCEPT ![a].levels = LevelsAfterCalculate(hp[a].startTime, hp[a].levels)]

\* socket.join(room), target.join(room)
JoinRoomForgotten(rms, target, room) == rms
JoinRoom(rms, target, room) == [rms EXCEPT ![target] = @ \cup {room}]

\* join-tournament up to its await: the socket joins the room; with a record in
\* the registry the handler
\* runs to its end; without one it calls getTournamentFromApi and waits.
JoinTournament(sock, tournamentId) ==
    /\ sockets[sock] = "open"
    /\ IF tournamentId = ""
       THEN /\ emitted' = <<>>
            /\ UNCHANGED <<heap, fetches, rooms>>
       ELSE /\ rooms' = JoinRoom(rooms, sock, tournamentRoom(tournamentId))
            /\ LET a == activeTournaments[tournamentId]
               IN IF a # 0
                  THEN /\ emitted' = JoinSyncEmits(sock, tournamentId, a, heap)
                       /\ heap' = JoinSyncHeap(a, heap)
                       /\ UNCHANGED fetches
                  ELSE /\ Len(fetches) < MaxFetches
                       /\ fetches' = IssueFetch(fetches, Fetch("join", tournamentId, sock))
                       /\ emitted' = <<>>
                       /\ UNCHANGED heap
    /\ lastOp' = Op("join", tournamentId, 0)
    /\ UNCHANGED <<now, timers, activeTournaments, stopped, calc, displays, displayKeys,
                   sockets>>

\* leave-tournament: if (tournamentId) socket.leave(tournamentRoom(tournamentId)).
LeaveTournament(sock, tournamentId) ==
    /\ sockets[sock] = "open"
    /\ rooms' = IF tournamentId = "" THEN rooms
               ELSE [rooms EXCEPT ![sock] = @ \ {tournamentRoom(tournamentId)}]
    /\ emitted' = <<>>
    /\ lastOp' = Op("leave", tournamentId, 0)
    /\ UNCHANGED <<now, heap, timers, activeTournaments, fetches, stopped, calc, displays,
                   displayKeys, sockets>>

\* if (t && t.startTime && t.status === "Running")
ShouldRecoverAnyStatus(t) == t.ok /\ ~Falsy(t.startTime)
ShouldRecover(t) == t.ok /\ ~Falsy(t.startTime) /\ t.status = "Running"

\* join-tournament after its await: recovery, then the immediate sync.
JoinFetched(k, t) ==
    /\ k \in 1..Len(fetches)
    /\ fetches[k].kind = "join"
    /\ LET tournamentId == fetches[k].tournamentId
           sock == fetches[k].sock
       IN /\ IF ShouldRecover(t)
             THEN /\ Len(heap) < MaxRecords
                  /\ LET hp == Append(heap, ClockRecord(tournamentId, t.startTime, t.levels,
                                                        t.currentLevel))
                         reg == [activeTournaments EXCEPT ![tournamentId] = Len(hp)]
                         run == runTournamentLoop(tournamentId, reg, hp, timers)
                     IN /\ heap' = JoinSyncHeap(Len(hp), run.heap)
                        /\ timers' = run.timers
                        /\ activeTournaments' = reg
                        /\ stopped' = [stopped EXCEPT ![tournamentId] = {}]
                        /\ emitted' = JoinSyncEmits(sock, tournamentId, Len(hp), run.heap)
                        /\ lastOp' = Op("join-recovered", tournamentId, 0)
             ELSE /\ UNCHANGED <<heap, timers, activeTournaments, stopped>>
                  /\ emitted' = <<>>
                  /\ lastOp' = Op("join-fetched", tournamentId, 0)
    /\ fetches' = RemoveAt(fetches, k)
    /\ UNCHANGED <<now, calc, displayVars>>

\* Time passes.
AdvanceTime ==
    /\ now < ClockEnd
    /\ now' = now + TickPeriod
    /\ emitted' = <<>>
    /\ lastOp' = Op("time", "", 0)
    /\ UNCHANGED <<heap, timers, activeTournaments, fetches, stopped, calc, displayVars>>

\* ------------------------------------------------------------------------
\* Display pairing (src/server.js): register-display, link-display.
\* ------------------------------------------------------------------------
DisplayId(sock, id) == Event("", sock, "display-id", id, 0, 0)
DisplayLinked(sock, tournamentId) ==
    Event(tournamentRoom(tournamentId), sock, "display-linked", "", 0, 0)

\* io.on("connection", (socket) => ...): socket.io gives every connection a new id.
Connect(sock) ==
    /\ sockets[sock] = "none"
    /\ sockets' = [sockets EXCEPT ![sock] = "open"]
    /\ emitted' = <<>>
    /\ lastOp' = Op("connection", "", 0)
    /\ UNCHANGED <<now, heap, timers, activeTournaments, fetches, stopped, calc, displays,
                   displayKeys, rooms>>

\* socket.on("disconnect"): the handler is empty; socket.io has taken the
\* socket out of io.sockets.sockets and out of its rooms.
Disconnect(sock) ==
    /\ sockets[sock] = "open"
    /\ sockets' = [sockets EXCEPT ![sock] = "closed"]
    /\ rooms' = [rooms EXCEPT ![sock] = {}]
    /\ emitted' = <<>>
    /\ lastOp' = Op("disconnect", "", 0)
    /\ UNCHANGED <<now, heap, timers, activeTournaments, fetches, stopped, calc, displays,
                   displayKeys>>

\* register-display: displays.set(id, socket.id); socket.emit("display-id", id).
\* id is what Math.random() gave: any code, one in use included.
RegisterDisplay(sock, id) ==
    /\ sockets[sock] = "open"
    /\ displays' = [displays EXCEPT ![id] = sock]
    /\ displayKeys' = IF displays[id] = "" THEN Append(displayKeys, id) ELSE displayKeys
    /\ emitted' = <<DisplayId(sock, id)>>
    /\ lastOp' = Op("register-display", "", 0)
    /\ UNCHANGED <<now, heap, timers, activeTournaments, fetches, stopped, calc, sockets,
                   rooms>>

\* link-display: targetId = displays.get(displayId); target =
\* io.sockets.sockets.get(targetId); if both exist, target.join and
\* target.emit("display-linked"); otherwise nothing (a warning is logged when
\* the code is unknown).
LinkDisplay(sock, displayId, tournamentId) ==
    /\ sockets[sock] = "open"
    /\ LET targetId == displays[displayId]
       IN IF targetId # "" /\ sockets[targetId] = "open"
          THEN /\ rooms' = JoinRoom(rooms, targetId, tournamentRoom(tournamentId))
               /\ emitted' = <<DisplayLinked(targetId, tournamentId)>>
          ELSE /\ rooms' = rooms
               /\ emitted' = <<>>
    /\ lastOp' = Op("link-display", tournamentId, 0)
    /\ UNCHANGED <<now, heap, timers, activeTournaments, fetches, stopped, calc, displays,
                   displayKeys, sockets>>

\* The disconnect handler of the earlier relay (src/server.js:103-112):
\* for (const [id, sId] of displays.entries()) if (sId === socket.id) {
\* displays.delete(id); break; }: the first code of the socket is deleted.
FirstKeyOf(keys, map, sock) ==
    LET hits == {k \in 1..Len(keys) : map[keys[k]] = sock}
    IN IF hits = {} THEN 0 ELSE CHOOSE k \in hits : \A j \in hits : k <= j

Disconnect_relay(sock) ==
    /\ sockets[sock] = "open"
    /\ sockets' = [sockets EXCEPT ![sock] = "closed"]
    /\ rooms' = [rooms EXCEPT ![sock] = {}]
    /\ LET k == FirstKeyOf(displayKeys, displays, sock)
       IN IF k = 0 THEN UNCHANGED <<displays, displayKeys>>
          ELSE /\ displays' = [displays EXCEPT ![displayKeys[k]] = ""]
               /\ displayKeys' = RemoveAt(displayKeys, k)
    /\ emitted' = <<>>
    /\ lastOp' = Op("disconnect", "", 0)
    /\ UNCHANGED <<now, heap, timers, activeTournaments, fetches, stopped, calc>>

\* link-display of the earlier relay: the display's socket joins
\* `tournament:${tournamentId}` and is sent display-linked; the call of
\* getTournamentById, which is not defined, throws a ReferenceError inside the
\* try, and the catch logs it.
LinkDisplay_relay(sock, displayId, tournamentId) ==
    /\ sockets[sock] = "open"
    /\ LET targetSocketId == displays[displayId]
       IN IF targetSocketId # "" /\ sockets[targetSocketId] = "open"
          THEN /\ rooms' = JoinRoom(rooms, targetSocketId, "tournament:" \o tournamentId)
               /\ emitted' = <<Event("tournament:" \o tournamentId, targetSocketId,
                                     "display-linked", "", 0, 0)>>
          ELSE /\ rooms' = rooms
               /\ emitted' = <<>>
    /\ lastOp' = Op("link-display", tournamentId, 0)
    /\ UNCHANGED <<now, heap, timers, activeTournaments, fetches, stopped, calc, displays,
                   displayKeys, sockets>>

\* tournament-control of the earlier relay: pause and update-level call
\* setTournamentStatus / setTournamentLevel, which are not defined: the async
\* listener rejects with a ReferenceError before anything is published.
ControlTypes_relay == {"pause", "update-level", "start"}
TournamentControl_relay(sock, tournamentId, type) ==
    /\ sockets[sock] = "open"
    /\ emitted' = <<>>
    /\ lastOp' = IF type \in {"pause", "update-level"}
                 THEN Threw(Op("tournament-control", tournamentId, 0), "ReferenceError")
                 ELSE Op("tournament-control", tournamentId, 0)
    /\ UNCHANGED <<now, heap, timers, activeTournaments, fetches, stopped, calc,
                   displayVars>>

\* send-tournament-data of the earlier relay: io.emit("tournament-data", ...).
SendTournamentData_relay(sock) ==
    /\ sockets[sock] = "open"
    /\ emitted' = <<Event("", "", "tournament-data", "", 0, 0)>>
    /\ lastOp' = Op("send-tournament-data", "", 0)
    /\ UNCHANGED <<now, heap, timers, activeTournaments, fetches, stopped, calc,
                   displayVars>>

\* join-tournament and leave-tournament of the earlier relay: the room is the
\* id itself, without the prefix.
JoinTournament_relay(sock, tournamentId) ==
    /\ sockets[sock] = "open"
    /\ rooms' = JoinRoom(rooms, sock, tournamentId)
    /\ emitted' = <<>>
    /\ lastOp' = Op("join", tournamentId, 0)
    /\ UNCHANGED <<now, heap, timers, activeTournaments, fetches, stopped, calc, displays,
                   displayKeys, sockets>>

LeaveTournament_relay(sock, tournamentId) ==
    /\ sockets[sock] = "open"
    /\ rooms' = [rooms EXCEPT ![sock] = @ \ {tournamentId}]
    /\ emitted' = <<>>
    /\ lastOp' = Op("leave", tournamentId, 0)
    /\ UNCHANGED <<now, heap, timers, activeTournaments, fetches, stopped, calc, displays,
                   displayKeys, sockets>>

\* player-action of the earlier relay: io.to(tournamentId).emit("tournament-update",
\* {action, payload}), to the room named by the id itself, the sender included.
PlayerAction_relay(sock, tournamentId) ==
    /\ sockets[sock] = "open"
    /\ emitted' = <<Event(tournamentId, "", "tournament-update", "bet", 0, 0)>>
    /\ lastOp' = Op("player-action", tournamentId, 0)
    /\ UNCHANGED <<now, heap, timers, activeTournaments, fetches, stopped, calc,
                   displayVars>>

\* register-display and link-display of src/unnamed/part_000 and part_001: the
\* handlers of the engine of src/server.js.
RegisterDisplay_part000(sock, id) == RegisterDisplay(sock, id)
LinkDisplay_part000(sock, displayId, tournamentId) == LinkDisplay(sock, displayId, tournamentId)
RegisterDisplay_part001(sock, id) == RegisterDisplay(sock, id)
LinkDisplay_part001(sock, displayId, tournamentId) == LinkDisplay(sock, displayId, tournamentId)
LeaveTournament_part001(sock, tournamentId) == LeaveTournament(sock, tournamentId)

\* The same two handlers in src/unnamed/part_003, which never declares
\* `displays`: in an ES module the first `displays.set` / `displays.get`
\* throws a ReferenceError, before anything is stored, joined or sent.
RegisterDisplay_part003(sock) ==
    /\ sockets[sock] = "open"
    /\ emitted' = <<>>
    /\ lastOp' = Threw(Op("register-display", "", 0), "ReferenceError")
    /\ UNCHANGED <<now, heap, timers, activeTournaments, fetches, stopped, calc,
                   displayVars>>

LinkDisplay_part003(sock, displayId, tournamentId) ==
    /\ sockets[sock] = "open"
    /\ emitted' = <<>>
    /\ lastOp' = Threw(Op("link-display", tournamentId, 0), "ReferenceError")
    /\ UNCHANGED <<now, heap, timers, activeTournaments, fetches, stopped, calc,
                   displayVars>>

\* send-tournament-data of part_003: io.emit("tournament-data", tournamentData),
\* to every connection.
SendTournamentData_part003(sock) ==
    /\ sockets[sock] = "open"
    /\ emitted' = <<Event("", "", "tournament-data", "", 0, 0)>>
    /\ lastOp' = Op("send-tournament-data", "", 0)
    /\ UNCHANGED <<now, heap, timers, activeTournaments, fetches, stopped, calc,
                   displayVars>>

\* disconnect of part_003: socket.io has closed the socket; the handler's
\* displays.entries() throws the same ReferenceError.
Disconnect_part003(sock) ==
    /\ sockets[sock] = "open"
    /\ sockets' = [sockets EXCEPT ![sock] = "closed"]
    /\ rooms' = [rooms EXCEPT ![sock] = {}]
    /\ emitted' = <<>>
    /\ lastOp' = Threw(Op("disconnect", "", 0), "ReferenceError")
    /\ UNCHANGED <<now, heap, timers, activeTournaments, fetches, stopped, calc, displays,
                   displayKeys>>

\* ------------------------------------------------------------------------
\* The engine of src/unnamed/part_000: start and pause arrive as
\* tournament-control socket events, the interval callback awaits its
\* finish notification
\* ------------------------------------------------------------------------
StartEvent(room) == Event(room, "", "tournament-control", "start", 1, 0)
PauseEvent(room) == Event(room, "", "tournament-control", "pause", 0, 0)

\* How a PATCH of the external system ends once it settles: the promise
\* resolves (whatever the HTTP status) or rejects (network failure).  A PATCH
\* that has not settled is a fetch in flight.
PatchOutcomes == {"ok", "rejected"}

\* The requests in flight that a socket handler awaits: all but the finish
\* PATCHes of the interval callbacks.
Awaited(q) == Cardinality({k \in 1..Len(q) : q[k].kind # "finish"})

\* The most requests in flight at once: those the handlers await, and one
\* finish PATCH for every interval.
MaxInFlight == MaxFetches + MaxRecords

\* The interval callback of part_000 up to its await.  Its finish branch clears
\* the interval, deletes the record, publishes finish and issues the PATCH
\* {Status: "Completed"}, which it awaits.  The level-change PATCH has a .catch
\* and is not awaited.
Tick_part000(i) ==
    /\ i \in 1..Len(timers)
    /\ timers[i].live
    /\ LET tournamentId == timers[i].tournamentId
           a == timers[i].active
           active == heap[a]
           st == calculateState_part000(active.startTime, active.levels, now)
           sorted == LevelsAfterCalculate(active.startTime, active.levels)
       IN /\ emitted' = TickEmits(tournamentRoom(tournamentId), st, active.cachedCurrentLevel)
          /\ lastOp' = TickOp(tournamentId, i, st)
          /\ IF st.null
             THEN UNCHANGED <<heap, timers, activeTournaments, stopped, fetches>>
             ELSE IF st.finished
             THEN /\ timers' = clearInterval(timers, active.timerInterval)
                  /\ activeTournaments' = [activeTournaments EXCEPT ![tournamentId] = 0]
                  /\ heap' = Collect([heap EXCEPT ![a].levels = sorted],
                                     activeTournaments', timers')
                  /\ stopped' = [stopped EXCEPT ![tournamentId] = @ \cup {"finished"}]
                  /\ fetches' = IssueFetch(fetches, Fetch("finish", tournamentId, ""))
             ELSE /\ heap' = [heap EXCEPT ![a].levels = sorted,
                                          ![a].cachedCurrentLevel = st.currentLevel]
                  /\ UNCHANGED <<timers, activeTournaments, stopped, fetches>>
    /\ UNCHANGED <<now, calc, displayVars>>

\* The interval callback of part_000 after its await: a console.log when the
\* PATCH promise resolved; when it rejected, the `await fetch(...)` has no
\* try/catch, the callback's own promise rejects and nothing handles it.
FinishPatched(k, outcome) ==
    /\ k \in 1..Len(fetches)
    /\ fetches[k].kind = "finish"
    /\ outcome \in PatchOutcomes
    /\ LET tournamentId == fetches[k].tournamentId
       IN lastOp' = IF outcome = "rejected"
                    THEN Threw(Op("tick-settled", tournamentId, 0), "unhandledRejection")
                    ELSE Op("tick-settled", tournamentId, 0)
    /\ emitted' = <<>>
    /\ fetches' = RemoveAt(fetches, k)
    /\ UNCHANGED <<now, heap, timers, activeTournaments, stopped, calc, displayVars>>

\* tournament-control {type: "start"} up to its await: startTournamentApi is called.
ControlStart(tournamentId) ==
    /\ Awaited(fetches) < MaxFetches
    /\ fetches' = IssueFetch(fetches, Fetch("start", tournamentId, ""))
    /\ emitted' = <<>>
    /\ lastOp' = Op("control-start", tournamentId, 0)
    /\ UNCHANGED <<now, heap, timers, activeTournaments, stopped, calc, displayVars>>

\* What startTournamentApi resolves to: null, or the started tournament.
StartResponses ==
    {ApiNull} \cup
    {[ok |-> TRUE, startTime |-> f.startTime, status |-> "Running", currentLevel |-> 1,
      levels |-> f.levels] : f \in TimingFacts}

\* start after its await: if (updatedTournament) { set; emit start; runTournamentLoop }
StartFetched(k, t) ==
    /\ k \in 1..Len(fetches)
    /\ fetches[k].kind = "start"
    /\ LET tournamentId == fetches[k].tournamentId
       IN IF t.ok
          THEN /\ Len(heap) < MaxRecords
               /\ LET hp == Append(heap, ClockRecord(tournamentId, t.startTime, t.levels, 1))
                      reg == [activeTournaments EXCEPT ![tournamentId] = Len(hp)]
                      run == runTournamentLoop(tournamentId, reg, hp, timers)
                  IN /\ heap' = run.heap
                     /\ timers' = run.timers
                     /\ activeTournaments' = reg
                     /\ stopped' = [stopped EXCEPT ![tournamentId] = {}]
                     /\ emitted' = <<StartEvent(tournamentRoom(tournamentId))>>
                     /\ lastOp' = Op("start-seeded", tournamentId, 0)
          ELSE /\ UNCHANGED <<heap, timers, activeTournaments, stopped>>
               /\ emitted' = <<>>
               /\ lastOp' = Op("start-failed", tournamentId, 0)
    /\ fetches' = RemoveAt(fetches, k)
    /\ UNCHANGED <<now, calc, displayVars>>

\* tournament-control {type: "pause"} up to its await: the record is removed
\* and its interval cleared, then the PATCH is awaited.
ControlPause(tournamentId) ==
    /\ Awaited(fetches) < MaxFetches
    /\ LET a == activeTournaments[tournamentId]
       IN IF a # 0
          THEN /\ timers' = clearInterval(timers, heap[a].timerInterval)
               /\ activeTournaments' = [activeTournaments EXCEPT ![tournamentId] = 0]
               /\ heap' = Collect(heap, activeTournaments', timers')
          ELSE UNCHANGED <<heap, timers, activeTournaments>>
    /\ fetches' = IssueFetch(fetches, Fetch("pause", tournamentId, ""))
    /\ stopped' = [stopped EXCEPT ![tournamentId] = @ \cup {"paused"}]
    /\ emitted' = <<>>
    /\ lastOp' = Op("control-pause", tournamentId, 0)
    /\ UNCHANGED <<now, calc, displayVars>>

\* pause after its await: the pause event is published when the PATCH promise
\* resolved; when it rejected, the handler's promise rejects unhandled.
PausePatched(k, outcome) ==
    /\ k \in 1..Len(fetches)
    /\ fetches[k].kind = "pause"
    /\ outcome \in PatchOutcomes
    /\ LET tournamentId == fetches[k].tournamentId
       IN IF outcome = "ok"
          THEN /\ emitted' = <<PauseEvent(tournamentRoom(tournamentId))>>
               /\ lastOp' = Op("pause-settled", tournamentId, 0)
          ELSE /\ emitted' = <<>>
               /\ lastOp' = Threw(Op("pause-settled", tournamentId, 0), "unhandledRejection")
    /\ fetches' = RemoveAt(fetches, k)
    /\ UNCHANGED <<now, heap, timers, activeTournaments, stopped, calc, displayVars>>

\* join-tournament of part_000, its last step: if (active) { calculateState;
\* if (currentState) { socket.emit update-level; socket.emit timer-sync } }.
JoinSyncEmits_part000(sock, tournamentId, a, hp) ==
    IF a = 0 THEN <<>>
    ELSE LET currentState == calculateState_part000(hp[a].startTime, hp[a].levels, now)
         IN IF ~currentState.null
            THEN <<Event(tournamentRoom(tournamentId), sock, "tournament-control",
                         "update-level", currentState.currentLevel, 0),
                   Event(tournamentRoom(tournamentId), sock, "timer-sync", "",
                         currentState.currentLevel, currentState.timeRemaining)>>
            ELSE <<>>

\* join-tournament of part_000 up to its await; if (!tournamentId) return.
JoinTournament_part000(sock, tournamentId) ==
    /\ sockets[sock] = "open"
    /\ IF tournamentId = ""
       THEN /\ emitted' = <<>>
            /\ UNCHANGED <<heap, fetches, rooms>>
       ELSE /\ rooms' = JoinRoom(rooms, sock, tournamentRoom(tournamentId))
            /\ LET a == activeTournaments[tournamentId]
               IN IF a # 0
                  THEN /\ emitted' = JoinSyncEmits_part000(sock, tournamentId, a, heap)
                       /\ heap' = JoinSyncHeap(a, heap)
                       /\ UNCHANGED fetches
                  ELSE /\ Awaited(fetches) < MaxFetches
                       /\ fetches' = IssueFetch(fetches, Fetch("join", tournamentId, sock))
                       /\ emitted' = <<>>
                       /\ UNCHANGED heap
    /\ lastOp' = Op("join", tournamentId, 0)
    /\ UNCHANGED <<now, timers, activeTournaments, stopped, calc, displays, displayKeys,
                   sockets>>

\* player-action: socket.to(room).emit("player-action", {action, payload}),
\* to every member of the room but the sender.
PlayerAction(sock, tournamentId) ==
    /\ sockets[sock] = "open"
    /\ emitted' = <<[Event(tournamentRoom(tournamentId), "", "player-action", "bet", 0, 0)
                        EXCEPT !.except = sock]>>
    /\ lastOp' = Op("player-action", tournamentId, 0)
    /\ UNCHANGED <<now, heap, timers, activeTournaments, fetches, stopped, calc, displayVars>>

\* admin-instruction: io.to(room).emit("tournament-instruction", {type, message, payload}).
AdminInstruction(tournamentId) ==
    /\ emitted' = <<Event(tournamentRoom(tournamentId), "", "tournament-instruction",
                          "FINAL_TABLE", 0, 0)>>
    /\ lastOp' = Op("admin-instruction", tournamentId, 0)
    /\ UNCHANGED <<now, heap, timers, activeTournaments, fetches, stopped, calc, displayVars>>

\* join-tournament of part_000 after its await: recovery, then the immediate state.
JoinFetched_part000(k, t) ==
    /\ k \in 1..Len(fetches)
    /\ fetches[k].kind = "join"
    /\ LET tournamentId == fetches[k].tournamentId
           sock == fetches[k].sock
       IN /\ IF ShouldRecover(t)
             THEN /\ Len(heap) < MaxRecords
                  /\ LET hp == Append(heap, ClockRecord(tournamentId, t.startTime, t.levels,
                                                        t.currentLevel))
                         reg == [activeTournaments EXCEPT ![tournamentId] = Len(hp)]
                         run == runTournamentLoop(tournamentId, reg, hp, timers)
                     IN /\ heap' = JoinSyncHeap(Len(hp), run.heap)
                        /\ timers' = run.timers
                        /\ activeTournaments' = reg
                        /\ stopped' = [stopped EXCEPT ![tournamentId] = {}]
                        /\ emitted' = JoinSyncEmits_part000(sock, tournamentId, Len(hp),
                                                            run.heap)
                        /\ lastOp' = Op("join-recovered", tournamentId, 0)
             ELSE /\ UNCHANGED <<heap, timers, activeTournaments, stopped>>
                  /\ emitted' = <<>>
                  /\ lastOp' = Op("join-fetched", tournamentId, 0)
    /\ fetches' = RemoveAt(fetches, k)
    /\ UNCHANGED <<now, calc, displayVars>>

\* ------------------------------------------------------------------------
\* The engine of src/unnamed/part_001: the record holds the instant at which
\* the current level ends (targetEndTime) and the level's number
\* ------------------------------------------------------------------------
\* The object literal { id, targetEndTime, currentLevel, timerInterval: null }.
ClockRecord_part001(id, targetEndTime, currentLevel) ==
    [id |-> id, targetEndTime |-> targetEndTime, currentLevel |-> currentLevel,
     timerInterval |-> 0]

\* Collection of unreachable records, as in the engine of src/server.js.  Here
\* a record can sit in the registry with its interval cleared (a tick at zero):
\* replacing it in the registry leaves it unreachable.
Tombstone_part001 == ClockRecord_part001("", Absent, 0)
Collect_part001(hp, reg, tm) ==
    [a \in 1..Len(hp) |-> IF Reachable(a, reg, tm) THEN hp[a] ELSE Tombstone_part001]

\* Math.max(0, Math.ceil((new Date(targetEndTime).getTime() - now) / 1000))
SecondsLeft(targetEndTime, now_) ==
    LET target == DateGetTime(targetEndTime)
    IN IF target.nan THEN NaN ELSE MathMax0(Num(MathCeil(target.v - now_, MsPerSec)))

\* A number as socket.io sends it: JSON has no NaN, it is sent as null (-1 here).
JsonNull == -1
JsonNumber(x) == IF x.nan THEN JsonNull ELSE x.v

\* emit("timer-sync", { currentLevel, timeLeft, status }); the status is kept
\* in the field `type`.
TimerSync_part001(room, sock, currentLevel, timeLeft, status) ==
    Event(room, sock, "timer-sync", status, currentLevel, JsonNumber(timeLeft))

\* The interval callback of part_001: at secondsLeft <= 0 it clears its
\* interval and publishes timeLeft 0; the registry is not touched.
Tick_part001(i) ==
    /\ i \in 1..Len(timers)
    /\ timers[i].live
    /\ LET tournamentId == timers[i].tournamentId
           active == heap[timers[i].active]
           secondsLeft == SecondsLeft(active.targetEndTime, now)
       IN /\ IF JsLessOrEqual(secondsLeft, 0)
             THEN /\ timers' = clearInterval(timers, active.timerInterval)
                  /\ emitted' = <<TimerSync_part001(tournamentRoom(tournamentId), "",
                                                    active.currentLevel, Num(0), "Paused")>>
             ELSE /\ timers' = timers
                  /\ emitted' = <<TimerSync_part001(tournamentRoom(tournamentId), "",
                                                    active.currentLevel, secondsLeft,
                                                    "Running")>>
          /\ heap' = Collect_part001(heap, activeTournaments, timers')
          /\ lastOp' = Op("tick", tournamentId, i)
    /\ UNCHANGED <<now, activeTournaments, fetches, stopped, calc, displayVars>>

\* What the external system injects with a start/resume: the end of the level.
TargetEndTimes == {Iso(TimeStep), Iso(3 * TimeStep), Unparseable, Absent, Null}
InternalStates_part001 ==
    {[targetEndTime |-> e, currentLevel |-> c] : e \in TargetEndTimes, c \in CurrentLevels}
WebhookBodies_part001 ==
    {WebhookBody("", "tournament-control", TRUE, "start")}
    \cup {WebhookBody(t, "", TRUE, "start") : t \in Ids}
    \cup {WebhookBody(t, "player-action", TRUE, "") : t \in Ids}
    \cup {WebhookBody(t, "tournament-control", FALSE, "") : t \in Ids}
    \cup {WebhookBody(t, "tournament-control", TRUE, ty) : t \in Ids, ty \in ControlTypes}
    \cup
    {[tournamentId |-> t, event |-> "tournament-control", hasData |-> TRUE, type |-> ty,
      hasInternal |-> TRUE, internal |-> in] :
        t \in Ids, ty \in {"start", "resume"}, in \in InternalStates_part001}

\* if (!tournamentId || !event) return res.status(400): nothing is published.
WebhookRejected_part001(body) == WebhookRejected(body)

\* io.to(room).emit(event, data) and nothing else: an event other than
\* tournament-control, or a control type that is none of start, resume, pause,
\* finish. A tournament-control event without data is published too, and then
\* data.type throws a TypeError.
WebhookRelayed_part001(body) == WebhookRelayed(body)

\* start/resume with data._internalState: a new record, runTournamentLoop.
WebhookStart_part001(body) ==
    /\ IsControl(body, {"start", "resume"})
    /\ body.hasInternal
    /\ Len(heap) < MaxRecords
    /\ LET tournamentId == body.tournamentId
           active == ClockRecord_part001(tournamentId, body.internal.targetEndTime,
                                         body.internal.currentLevel)
           hp == Append(heap, active)
           reg == [activeTournaments EXCEPT ![tournamentId] = Len(hp)]
           run == runTournamentLoop(tournamentId, reg, hp, timers)
       IN /\ heap' = Collect_part001(run.heap, reg, run.timers)
          /\ timers' = run.timers
          /\ activeTournaments' = reg
          /\ stopped' = [stopped EXCEPT ![tournamentId] = {}]
          /\ emitted' = Broadcast(body)
          /\ lastOp' = Op("webhook-start", tournamentId, 0)
    /\ UNCHANGED <<now, fetches, calc, displayVars>>

\* start/resume without _internalState: the event is relayed, nothing else.
WebhookStartNoState_part001(body) ==
    /\ IsControl(body, {"start", "resume"})
    /\ ~body.hasInternal
    /\ emitted' = Broadcast(body)
    /\ lastOp' = Op("webhook-relay", body.tournamentId, 0)
    /\ UNCHANGED <<now, heap, timers, activeTournaments, fetches, stopped, calc, displayVars>>

\* pause/finish: if (active && active.timerInterval) { clearInterval; delete }
WebhookPause_part001(body) ==
    /\ IsControl(body, {"pause", "finish"})
    /\ LET tournamentId == body.tournamentId
           a == activeTournaments[tournamentId]
       IN /\ IF a # 0 /\ heap[a].timerInterval # 0
             THEN /\ timers' = clearInterval(timers, heap[a].timerInterval)
                  /\ activeTournaments' = [activeTournaments EXCEPT ![tournamentId] = 0]
                  /\ heap' = Collect_part001(heap, activeTournaments', timers')
             ELSE UNCHANGED <<heap, timers, activeTournaments>>
          /\ stopped' = [stopped EXCEPT ![tournamentId] = @ \cup {"paused"}]
          /\ emitted' = Broadcast(body)
          /\ lastOp' = Op("webhook-pause", tournamentId, 0)
    /\ UNCHANGED <<now, fetches, calc, displayVars>>

\* join-tournament of part_001, its last step: if (active) socket.emit("timer-sync").
JoinSyncEmits_part001(sock, tournamentId, a, hp) ==
    IF a = 0 THEN <<>>
    ELSE <<TimerSync_part001(tournamentRoom(tournamentId), sock, hp[a].currentLevel,
                             SecondsLeft(hp[a].targetEndTime, now), "Running")>>

\* join-tournament of part_001 up to its await; if (!tournamentId) return.
JoinTournament_part001(sock, tournamentId) ==
    /\ sockets[sock] = "open"
    /\ IF tournamentId = ""
       THEN /\ emitted' = <<>>
            /\ UNCHANGED <<fetches, rooms>>
       ELSE /\ rooms' = JoinRoom(rooms, sock, tournamentRoom(tournamentId))
            /\ LET a == activeTournaments[tournamentId]
               IN IF a # 0
                  THEN /\ emitted' = JoinSyncEmits_part001(sock, tournamentId, a, heap)
                       /\ UNCHANGED fetches
                  ELSE /\ Len(fetches) < MaxFetches
                       /\ fetches' = IssueFetch(fetches, Fetch("join", tournamentId, sock))
                       /\ emitted' = <<>>
    /\ lastOp' = Op("join", tournamentId, 0)
    /\ UNCHANGED <<now, heap, timers, activeTournaments, stopped, calc, displays,
                   displayKeys, sockets>>

\* t.levels.find(l => l.levelNumber === t.currentLevel): its durationSeconds, else 0.
RECURSIVE LevelDuration(_, _)
LevelDuration(levels, currentLevel) ==
    IF levels = <<>> THEN 0
    ELSE IF levels[1].levelNumber = currentLevel THEN levels[1].durationSeconds
    ELSE LevelDuration(Tail(levels), currentLevel)

\* What getTournamentFromApi resolves to in the behaviours of part_001.
ApiResponses_part001 ==
    {ApiNull} \cup
    {[ok |-> TRUE, startTime |-> st, status |-> status, currentLevel |-> c,
      levels |-> <<Level(2, 1), Level(1, 1)>>] :
        st \in {Iso(0), Unparseable}, status \in {"Running", "Paused"}, c \in CurrentLevels}

\* join-tournament of part_001 after its await: the end of the level is
\* rebuilt as start + duration; new Date(NaN).toISOString() throws a
\* RangeError, which leaves the handler as an unhandled rejection.
JoinFetched_part001(k, t) ==
    /\ k \in 1..Len(fetches)
    /\ fetches[k].kind = "join"
    /\ LET tournamentId == fetches[k].tournamentId
           sock == fetches[k].sock
           start == DateGetTime(t.startTime)
       IN IF ShouldRecover(t) /\ start.nan
          THEN /\ UNCHANGED <<heap, timers, activeTournaments, stopped>>
               /\ emitted' = <<>>
               /\ lastOp' = Threw(Op("join-fetched", tournamentId, 0), "RangeError")
          ELSE IF ShouldRecover(t)
          THEN /\ Len(heap) < MaxRecords
               /\ LET targetTimeRecovery ==
                          Iso(start.v + LevelDuration(t.levels, t.currentLevel) * MsPerSec)
                      hp == Append(heap, ClockRecord_part001(tournamentId, targetTimeRecovery,
                                                             t.currentLevel))
                      reg == [activeTournaments EXCEPT ![tournamentId] = Len(hp)]
                      run == runTournamentLoop(tournamentId, reg, hp, timers)
                  IN /\ heap' = Collect_part001(run.heap, reg, run.timers)
                     /\ timers' = run.timers
                     /\ activeTournaments' = reg
                     /\ stopped' = [stopped EXCEPT ![tournamentId] = {}]
                     /\ emitted' = JoinSyncEmits_part001(sock, tournamentId, Len(hp),
                                                         run.heap)
                     /\ lastOp' = Op("join-recovered", tournamentId, 0)
          ELSE /\ UNCHANGED <<heap, timers, activeTournaments, stopped>>
               /\ emitted' = <<>>
               /\ lastOp' = Op("join-fetched", tournamentId, 0)
    /\ fetches' = RemoveAt(fetches, k)
    /\ UNCHANGED <<now, calc, displayVars>>

\* ------------------------------------------------------------------------
\* The calculator on its own: inputs drawn from bounded sets, one call
\* ------------------------------------------------------------------------
LevelNumbers == {1, 2, 4}
Durations == {1, 2}
LevelRecords == {Level(n, d) : n \in LevelNumbers, d \in Durations}

RECURSIVE SeqsUpTo(_, _)
SeqsUpTo(S, n) ==
    IF n = 0 THEN {<<>>}
    ELSE LET shorter == SeqsUpTo(S, n - 1)
         IN shorter \cup {Append(s, x) : s \in {t \in shorter : Len(t) = n - 1}, x \in S}

CalcStartTimes == {Absent, Unparseable, Iso(0), Iso(2 * TimeStep)}
CalcNows == {k * TimeStep : k \in 0..MaxSteps}

\* The level ladder of the specification's examples: three levels of 300 s.
ExampleLevels == <<Level(1, 300), Level(2, 300), Level(3, 300)>>
ExampleCalls ==
    {[startTimeStr |-> Iso(0), levels |-> ExampleLevels, now |-> n] :
        n \in {0, 300000, 899000, 900000, 299200}}
    \cup {[startTimeStr |-> Iso(5000), levels |-> ExampleLevels, now |-> 0]}

CalcCalls ==
    {[startTimeStr |-> s, levels |-> l, now |-> n] :
        s \in CalcStartTimes, l \in SeqsUpTo(LevelRecords, MaxLevels), n \in CalcNows}
    \cup ExampleCalls

CalcIdle == [pc |-> "idle", fn |-> "", startTimeStr |-> Absent, levels |-> <<>>,
             now |-> 0, result |-> NullState, levelsAfter |-> <<>>,
             second |-> NullState]

\* const displays = new Map(); no connection yet.
DisplaysInit ==
    /\ displays = [d \in DisplayIds |-> ""]
    /\ displayKeys = <<>>
    /\ sockets = [c \in Connections \cup Sockets |->
                      IF c \in Sockets THEN "open" ELSE "none"]
    /\ rooms = [c \in Connections \cup Sockets |-> {}]

EngineInit ==
    /\ now = 0
    /\ heap = <<>>
    /\ timers = <<>>
    /\ activeTournaments = [id \in AllIds |-> 0]
    /\ fetches = <<>>
    /\ emitted = <<>>
    /\ lastOp = Op("init", "", 0)
    /\ stopped = [id \in AllIds |-> {}]
    /\ DisplaysInit

CalcInit ==
    /\ EngineInit
    /\ \E c \in CalcCalls :
        calc = [pc |-> "call", fn |-> "", startTimeStr |-> c.startTimeStr,
                levels |-> c.levels, now |-> c.now, result |-> NullState,
                levelsAfter |-> c.levels, second |-> NullState]

CallCalculateState ==
    /\ calc.pc = "call"
    /\ UNCHANGED engineVars
    /\ calc' = [calc EXCEPT !.pc = "done", !.fn = "server",
                    !.result = calculateState(calc.startTimeStr, calc.levels, calc.now),
                    !.levelsAfter = LevelsAfterCalculate(calc.startTimeStr, calc.levels)]

CallCalculateState_part000 ==
    /\ calc.pc = "call"
    /\ UNCHANGED engineVars
    /\ calc' = [calc EXCEPT !.pc = "done", !.fn = "part000",
                    !.result = calculateState_part000(calc.startTimeStr, calc.levels, calc.now),
                    !.levelsAfter = LevelsAfterCalculate(calc.startTimeStr, calc.levels)]

\* The same caller calls again at the same instant, with the same start time
\* and the same array, which the first call has sorted in place.
CallCalculateStateAgain ==
    /\ calc.pc = "done"
    /\ UNCHANGED engineVars
    /\ calc' = [calc EXCEPT !.pc = "again",
                    !.second = IF calc.fn = "server"
                               THEN calculateState(calc.startTimeStr, calc.levelsAfter, calc.now)
                               ELSE calculateState_part000(calc.startTimeStr, calc.levelsAfter,
                                                           calc.now),
                    !.levelsAfter = LevelsAfterCalculate(calc.startTimeStr, calc.levelsAfter)]

CalcNext == CallCalculateState \/ CallCalculateState_part000 \/ CallCalculateStateAgain

SpecCalc == CalcInit /\ [][CalcNext]_vars

\* ------------------------------------------------------------------------
\* The engine
\* ------------------------------------------------------------------------
Init == EngineInit /\ calc = CalcIdle

Next ==
    \/ \E body \in WebhookBodies : WebhookEmit(body)
    \/ \E k \in 1..MaxFetches, t \in ApiResponses : FallbackFetched(k, t)
    \/ \E sock \in Sockets, id \in Ids \cup {""} : JoinTournament(sock, id)
    \/ \E k \in 1..MaxFetches, t \in ApiResponses : JoinFetched(k, t)
    \/ \E i \in 1..MaxRecords : Tick(i)
    \/ AdvanceTime

Spec == Init /\ [][Next]_vars

\* ------------------------------------------------------------------------
\* The engine of src/unnamed/part_000
\* ------------------------------------------------------------------------
Next_part000 ==
    \/ \E id \in Ids : ControlStart(id)
    \/ \E k \in 1..MaxInFlight, t \in StartResponses : StartFetched(k, t)
    \/ \E id \in Ids : ControlPause(id)
    \/ \E k \in 1..MaxInFlight, outcome \in PatchOutcomes : PausePatched(k, outcome)
    \/ \E sock \in Sockets, id \in Ids \cup {""} : JoinTournament_part000(sock, id)
    \/ \E sock \in Sockets, id \in EngineDisplayIds : RegisterDisplay_part000(sock, id)
    \/ \E sock \in Sockets, displayId \in EngineDisplayIds, tournamentId \in Ids :
          LinkDisplay_part000(sock, displayId, tournamentId)
    \/ \E k \in 1..MaxInFlight, t \in ApiResponses : JoinFetched_part000(k, t)
    \/ \E i \in 1..MaxRecords : Tick_part000(i)
    \/ \E k \in 1..MaxInFlight, outcome \in PatchOutcomes : FinishPatched(k, outcome)
    \/ \E sock \in Sockets, id \in Ids \cup {""} : LeaveTournament(sock, id)
    \/ \E sock \in Sockets, id \in Ids : PlayerAction(sock, id)
    \/ \E id \in Ids : AdminInstruction(id)
    \/ AdvanceTime

Spec_part000 == Init /\ [][Next_part000]_vars

\* ------------------------------------------------------------------------
\* A tournament left to run: start commands with a valid start time and a
\* 60 s ladder, the intervals firing and time advancing for as long as the
\* process runs
\* ------------------------------------------------------------------------
ExampleLadder == <<Level(1, 60)>>
LiveLadders == {ExampleLadder, <<Level(2, 30), Level(1, 30)>>}
LiveEnd == TotalMs(ExampleLadder)

LiveBodies ==
    {[tournamentId |-> t, event |-> "tournament-control", hasData |-> TRUE, type |-> "start",
      hasInternal |-> TRUE,
      internal |-> [startTime |-> Iso(0), levels |-> l, currentLevel |-> 1]] :
        t \in Ids, l \in LiveLadders}

AdvanceTimeLive ==
    /\ now < LiveEnd
    /\ now' = now + TickPeriod
    /\ emitted' = <<>>
    /\ lastOp' = Op("time", "", 0)
    /\ UNCHANGED <<heap, timers, activeTournaments, fetches, stopped, calc, displayVars>>

NextLive ==
    \/ \E body \in LiveBodies : WebhookStart(body)
    \/ \E i \in 1..MaxRecords : Tick(i)
    \/ AdvanceTimeLive

\* setInterval keeps calling each live callback, and the clock keeps advancing.
SpecLive ==
    /\ Init /\ [][NextLive]_vars
    /\ WF_vars(AdvanceTimeLive)
    /\ \A i \in 1..MaxRecords : WF_vars(Tick(i))

\* ------------------------------------------------------------------------
\* Recovery on its own: every record is seeded by join-tournament from the
\* durable record, whose status comes in every spelling
\* ------------------------------------------------------------------------
RecoveryStatuses == Statuses \cup {"RUNNING"}
RecoveryResponses ==
    {ApiNull} \cup
    {[ok |-> TRUE, startTime |-> f.startTime, status |-> st, currentLevel |-> c,
      levels |-> f.levels] :
        f \in TimingFacts \cup {NoStartTime}, st \in RecoveryStatuses, c \in CurrentLevels}

PauseBodies == {WebhookBody(t, "tournament-control", TRUE, "pause") : t \in Ids}

NextRecovery ==
    \/ \E sock \in Sockets, id \in Ids : JoinTournament(sock, id)
    \/ \E k \in 1..MaxFetches, t \in RecoveryResponses : JoinFetched(k, t)
    \/ \E i \in 1..MaxRecords : Tick(i)
    \/ \E body \in PauseBodies : WebhookPause(body)
    \/ AdvanceTime

SpecRecovery == Init /\ [][NextRecovery]_vars

\* ------------------------------------------------------------------------
\* Overlapping recoveries: join-tournament arrived twice for an id without
\* record; both handlers found no record at line 411 and both wait for
\* getTournamentFromApi
\* ------------------------------------------------------------------------
OverlappingJoins == 2

RaceInit ==
    /\ now = 0
    /\ heap = <<>>
    /\ timers = <<>>
    /\ activeTournaments = [id \in AllIds |-> 0]
    /\ \E id \in Ids, sock \in Sockets :
          /\ fetches = [k \in 1..OverlappingJoins |-> Fetch("join", id, sock)]
          /\ lastOp = Op("join", id, 0)
          /\ rooms = [c \in Connections \cup Sockets |->
                         IF c = sock THEN {tournamentRoom(id)} ELSE {}]
    /\ emitted = <<>>
    /\ stopped = [id \in AllIds |-> {}]
    /\ calc = CalcIdle
    /\ displays = [d \in DisplayIds |-> ""]
    /\ displayKeys = <<>>
    /\ sockets = [c \in Connections \cup Sockets |->
                      IF c \in Sockets THEN "open" ELSE "none"]

NextRace ==
    \/ \E k \in 1..OverlappingJoins, t \in ApiResponses : JoinFetched(k, t)
    \/ \E i \in 1..MaxRecords : Tick(i)
    \/ AdvanceTime

SpecRace == RaceInit /\ [][NextRace]_vars

\* ------------------------------------------------------------------------
\* Display pairing on its own
\* ------------------------------------------------------------------------
NextDisplays ==
    \/ \E sock \in Connections : Connect(sock)
    \/ \E sock \in Connections : Disconnect(sock)
    \/ \E sock \in Connections, id \in DisplayIds : RegisterDisplay(sock, id)
    \/ \E sock \in Connections, displayId \in DisplayIds, tournamentId \in LinkTournaments :
          LinkDisplay(sock, displayId, tournamentId)
    \/ \E sock \in Connections, id \in Ids : JoinTournament(sock, id)
    \/ \E k \in 1..MaxFetches : JoinFetched(k, ApiNull)
    \/ \E sock \in Connections, id \in LinkTournaments \cup {""} : LeaveTournament(sock, id)

SpecDisplays == Init /\ [][NextDisplays]_vars

\* Registration and disconnection in the earlier relay of src/server.js.
NextDisplays_relay ==
    \/ \E sock \in Connections : Connect(sock)
    \/ \E sock \in Connections, id \in DisplayIds : RegisterDisplay(sock, id)
    \/ \E sock \in Connections : Disconnect_relay(sock)
    \/ \E sock \in Connections, displayId \in DisplayIds, tournamentId \in Ids :
          LinkDisplay_relay(sock, displayId, tournamentId)
    \/ \E sock \in Connections, id \in Ids, type \in ControlTypes_relay :
          TournamentControl_relay(sock, id, type)
    \/ \E sock \in Connections : SendTournamentData_relay(sock)
    \/ \E sock \in Connections, id \in Ids : JoinTournament_relay(sock, id)
    \/ \E sock \in Connections, id \in Ids : LeaveTournament_relay(sock, id)
    \/ \E sock \in Connections, id \in Ids : PlayerAction_relay(sock, id)

SpecDisplays_relay == Init /\ [][NextDisplays_relay]_vars

NextDisplays_part003 ==
    \/ \E sock \in Connections : Connect(sock)
    \/ \E sock \in Connections : RegisterDisplay_part003(sock)
    \/ \E sock \in Connections, displayId \in DisplayIds, tournamentId \in LinkTournaments :
          LinkDisplay_part003(sock, displayId, tournamentId)
    \/ \E sock \in Connections : SendTournamentData_part003(sock)
    \/ \E sock \in Connections : Disconnect_part003(sock)

SpecDisplays_part003 == Init /\ [][NextDisplays_part003]_vars

\* ------------------------------------------------------------------------
\* The engine of src/unnamed/part_001
\* ------------------------------------------------------------------------
Next_part001 ==
    \/ \E body \in WebhookBodies_part001 : WebhookRejected_part001(body)
    \/ \E body \in WebhookBodies_part001 : WebhookRelayed_part001(body)
    \/ \E body \in WebhookBodies_part001 : WebhookStart_part001(body)
    \/ \E body \in WebhookBodies_part001 : WebhookStartNoState_part001(body)
    \/ \E body \in WebhookBodies_part001 : WebhookPause_part001(body)
    \/ \E sock \in Sockets, id \in Ids \cup {""} : JoinTournament_part001(sock, id)
    \/ \E sock \in Sockets, id \in Ids \cup {""} : LeaveTournament_part001(sock, id)
    \/ \E sock \in Sockets, id \in EngineDisplayIds : RegisterDisplay_part001(sock, id)
    \/ \E sock \in Sockets, displayId \in EngineDisplayIds, tournamentId \in Ids :
          LinkDisplay_part001(sock, displayId, tournamentId)
    \/ \E k \in 1..MaxFetches, t \in ApiResponses_part001 : JoinFetched_part001(k, t)
    \/ \E i \in 1..MaxRecords : Tick_part001(i)
    \/ AdvanceTime

Spec_part001 == Init /\ [][Next_part001]_vars

\* ------------------------------------------------------------------------
\* Two tournaments side by side: commands for either id, every interval
\* ticking
\* ------------------------------------------------------------------------
TwoBodies ==
    {[tournamentId |-> t, event |-> "tournament-control", hasData |-> TRUE, type |-> "start",
      hasInternal |-> TRUE,
      internal |-> [startTime |-> Iso(0), levels |-> l, currentLevel |-> c]] :
        t \in AllIds, l \in Ladders, c \in CurrentLevels}
    \cup {WebhookBody(t, "tournament-control", TRUE, ty) :
             t \in AllIds, ty \in {"pause", "finish", "update-level"}}

NextTwo ==
    \/ \E body \in TwoBodies : WebhookStart(body)
    \/ \E body \in TwoBodies : WebhookPause(body)
    \/ \E body \in TwoBodies : WebhookRelayed(body)
    \/ \E i \in 1..MaxRecords : Tick(i)
    \/ AdvanceTime

SpecTwo == Init /\ [][NextTwo]_vars

\* ------------------------------------------------------------------------
\* Tournaments without levels: the injected state or the durable record has
\* no level list (`internal.levels || []`, `t.levels || []`) or an empty one
\* ------------------------------------------------------------------------
LevelLists == {<<>>, <<Level(1, 1)>>}
EmptyBodies ==
    {[tournamentId |-> t, event |-> "tournament-control", hasData |-> TRUE, type |-> ty,
      hasInternal |-> TRUE,
      internal |-> [startTime |-> Iso(0), levels |-> l, currentLevel |-> 1]] :
        t \in Ids, ty \in {"start", "resume"}, l \in LevelLists}
    \cup {WebhookBody(t, "tournament-control", TRUE, ty) :
             t \in Ids, ty \in {"pause", "finish"}}
EmptyResponses ==
    {ApiNull} \cup
    {[ok |-> TRUE, startTime |-> Iso(0), status |-> "Running", currentLevel |-> 1,
      levels |-> l] : l \in LevelLists}

NextEmpty ==
    \/ \E body \in EmptyBodies : WebhookStart(body)
    \/ \E body \in EmptyBodies : WebhookPause(body)
    \/ \E sock \in Sockets, id \in Ids : JoinTournament(sock, id)
    \/ \E k \in 1..MaxFetches, t \in EmptyResponses : JoinFetched(k, t)
    \/ \E i \in 1..MaxRecords : Tick(i)
    \/ AdvanceTime

SpecEmpty == Init /\ [][NextEmpty]_vars

\* ------------------------------------------------------------------------
\* Properties of the calculator (specification SpecCalc)
\* ------------------------------------------------------------------------
\* Cumulative end, in ms, of the k-th level of an ordered list.
RECURSIVE CumulativeEndMs(_, _)
CumulativeEndMs(s, k) ==
    IF k = 0 THEN 0 ELSE CumulativeEndMs(s, k - 1) + s[k].durationSeconds * 1000

\* Elapsed time of the call, for a parseable start instant: never negative.
CallElapsedMs ==
    IF calc.now > calc.startTimeStr.ms THEN calc.now - calc.startTimeStr.ms ELSE 0

CallHasData == calc.startTimeStr.kind = "iso" /\ Len(calc.levels) > 0

\* r is the least whole number of seconds covering ms milliseconds.
IsCeilSeconds(r, ms) == r * 1000 >= ms /\ (r - 1) * 1000 < ms

ExampleResult(n, st) ==
    (calc.levels = ExampleLevels /\ calc.startTimeStr = Iso(0) /\ calc.now = n)
        => calc.result = st

\* C6: for a non-empty level list and a parseable start, calculateState
\* (src/server.js) returns the first level, in ascending levelNumber order,
\* whose cumulative end exceeds the elapsed time, with timeRemaining the
\* ceiling of the seconds left in it, and returns finished with
\* timeRemaining 0 exactly when the elapsed time is at least the sum of all
\* durations; the four examples of the level ladder 3 x 300 s hold.
C6_FirstLevelWhoseEndExceedsElapsed ==
    (calc.pc = "done" /\ calc.fn = "server" /\ CallHasData) =>
        LET s == SortLevels(calc.levels)
            e == CallElapsedMs
            r == calc.result
        IN  /\ ~r.null
            /\ r.finished <=> e >= CumulativeEndMs(s, Len(s))
            /\ r.finished => r.timeRemaining = 0
            /\ ~r.finished =>
                 \E k \in 1..Len(s) :
                    /\ CumulativeEndMs(s, k) > e
                    /\ \A j \in 1..(k - 1) : CumulativeEndMs(s, j) <= e
                    /\ r.currentLevel = s[k].levelNumber
                    /\ IsCeilSeconds(r.timeRemaining, CumulativeEndMs(s, k) - e)
            /\ ExampleResult(0, DerivedState(FALSE, 1, 300))
            /\ ExampleResult(300000, DerivedState(FALSE, 2, 300))
            /\ ExampleResult(899000, DerivedState(FALSE, 3, 1))
            /\ calc.levels = ExampleLevels /\ calc.startTimeStr = Iso(0) /\ calc.now = 900000
                 => r.finished /\ r.timeRemaining = 0

\* A call in the middle of an unsorted ladder: the second level in ascending
\* order is reported although it is first in the list.
C6_Witness ==
    /\ calc.pc = "done" /\ calc.fn = "server"
    /\ calc.levels = <<Level(2, 1), Level(1, 2)>>
    /\ calc.startTimeStr = Iso(0) /\ calc.now = 5 * TimeStep
    /\ calc.result = DerivedState(FALSE, 2, 1)

\* C7: a non-finished state has timeRemaining >= 1 (both calculators).
C7_RemainingAtLeastOneSecond ==
    (calc.pc = "done" /\ ~calc.result.null /\ ~calc.result.finished)
        => calc.result.timeRemaining >= 1

\* 299.2 s into a 300 s level: 0.8 s are left and 1 is reported.
C7_Witness ==
    /\ calc.pc = "done" /\ calc.fn = "server"
    /\ calc.levels = ExampleLevels /\ calc.now = 299200
    /\ calc.result = DerivedState(FALSE, 1, 1)

\* C8: with the start instant in the future, calculateState returns the
\* first level with timeRemaining equal to that level's full duration.
\* (Violated by the calculator of src/unnamed/part_000, which does not clamp.)
C8_FutureStartBehavesAsElapsedZero ==
    (calc.pc = "done" /\ CallHasData /\ calc.startTimeStr.ms > calc.now) =>
        LET s == SortLevels(calc.levels)
        IN calc.result = DerivedState(FALSE, s[1].levelNumber, s[1].durationSeconds)

\* C9: calculateState returns null when the level list is empty or the
\* start-time fact is absent or unparseable.
\* (Violated: an unparseable start time makes elapsedMs NaN, no level
\* matches, and the result is finished.)
C9_NullOnInsufficientData ==
    (calc.pc = "done" /\ (Len(calc.levels) = 0 \/ calc.startTimeStr.kind # "iso"))
        => calc.result.null

CallPastTheEnd ==
    /\ calc.pc = "done" /\ CallHasData
    /\ CallElapsedMs >= CumulativeEndMs(calc.levels, Len(calc.levels))

\* C10 as stated: past the total duration, currentLevel is the levelNumber
\* of the last level in ascending order.
C10_FinishedReportsLastLevelNumber ==
    CallPastTheEnd =>
        LET s == SortLevels(calc.levels)
        IN calc.result = DerivedState(TRUE, s[Len(s)].levelNumber, 0)

\* C10 as amended: past the total duration, the result is finished with
\* timeRemaining 0 and currentLevel equal to the number of levels of the
\* list (src/server.js), or that number plus one (src/unnamed/part_000).
C10_FinishedReportsLevelCount ==
    CallPastTheEnd =>
        calc.result = DerivedState(TRUE,
                                   IF calc.fn = "server" THEN Len(calc.levels)
                                   ELSE Len(calc.levels) + 1,
                                   0)

\* A finished call on a list whose last level number is not its length.
C10_Witness ==
    /\ CallPastTheEnd /\ calc.fn = "server"
    /\ calc.levels = <<Level(4, 1), Level(2, 1)>>
    /\ calc.result = DerivedState(TRUE, 2, 0)

\* C11: for a fixed start instant, level list and value of now, two
\* successive calls of calculateState return identical results (the second
\* call works on the array the first call sorted in place).
C11_SecondCallReturnsTheSame ==
    calc.pc = "again" => calc.second = calc.result

\* Two calls on an unsorted ladder, 2.5 s into it: both report level 4.
C11_Witness ==
    /\ calc.pc = "again" /\ calc.fn = "server"
    /\ calc.levels = <<Level(4, 1), Level(1, 2)>>
    /\ calc.startTimeStr = Iso(0) /\ calc.now = 5 * TimeStep
    /\ calc.second = DerivedState(FALSE, 4, 1)

\* The rearrangements of a sequence.
Rearrangements(s) ==
    {[i \in 1..Len(s) |-> s[p[i]]] :
        p \in {q \in [1..Len(s) -> 1..Len(s)] :
                  \A i, j \in 1..Len(s) : i # j => q[i] # q[j]}}

DistinctLevelNumbers(s) ==
    \A i, j \in 1..Len(s) : i # j => s[i].levelNumber # s[j].levelNumber

\* C28: for a level list with distinct levelNumbers, calculateState returns
\* the same derived state for every order in which the levels are supplied
\* (the ascending order among them), at every instant.
C28_ResultIndependentOfLevelOrder ==
    (calc.pc = "done" /\ DistinctLevelNumbers(calc.levels)) =>
        \A l \in Rearrangements(calc.levels) :
            calc.result = IF calc.fn = "server"
                          THEN calculateState(calc.startTimeStr, l, calc.now)
                          ELSE calculateState_part000(calc.startTimeStr, l, calc.now)

\* One second into a ladder supplied as level 2 (2 s) before level 1 (1 s):
\* level 2 with its full 2 s, not level 2 with 1 s left.
C28_Witness ==
    /\ calc.pc = "done" /\ calc.fn = "server"
    /\ calc.levels = <<Level(2, 2), Level(1, 1)>>
    /\ calc.startTimeStr = Iso(0) /\ calc.now = 2 * TimeStep
    /\ calc.result = DerivedState(FALSE, 2, 2)

\* ------------------------------------------------------------------------
\* Properties of the engine (specification Spec)
\* ------------------------------------------------------------------------
LiveTimers(id) ==
    {i \in 1..Len(timers) : timers[i].live /\ timers[i].tournamentId = id}

TimerSyncs == {k \in 1..Len(emitted) : emitted[k].event = "timer-sync"}

\* C1: every tournament id has at most one live periodic task.
\* (Violated: every start creates a new record whose timerInterval is null, so
\* runTournamentLoop never clears the interval of the record it replaces.)
C1_AtMostOneLiveTimerPerId ==
    \A id \in Ids : Cardinality(LiveTimers(id)) <= 1

\* C2: a tick whose derived state is finished cancels its own task, removes
\* the registry record and publishes exactly the finish event; and once a
\* tick has finished a tournament, no tick publishes anything for it until a
\* start or a recovery.
\* (Violated: an interval left over from an earlier start keeps ticking.)
C2_NothingPublishedAfterFinish ==
    /\ (lastOp.op = "tick" /\ lastOp.derived = "finished") =>
          /\ ~timers[lastOp.timer].live
          /\ activeTournaments[lastOp.id] = 0
          /\ emitted = <<FinishEvent(tournamentRoom(lastOp.id))>>
    /\ \A id \in Ids :
          ("finished" \in stopped[id] /\ lastOp.op = "tick" /\ lastOp.id = id
              /\ lastOp.derived # "finished")
          => emitted = <<>>

\* C3: from a pause or finish command until a start/resume or a recovery, the
\* id has no registry record, no live periodic task, and no timer-sync is
\* published on its channel.
\* (Violated: the command stops only the interval of the record in the
\* registry; an interval left over from an earlier start stays live.)
C3_PausedMeansStopped ==
    \A id \in Ids :
        "paused" \in stopped[id] =>
            /\ activeTournaments[id] = 0
            /\ LiveTimers(id) = {}
            /\ \A k \in TimerSyncs : emitted[k].room # tournamentRoom(id)

\* The state calculateState gives the record timer i closes over, now.
DerivedOf(i) ==
    LET active == heap[timers[i].active]
    IN calculateState(active.startTime, active.levels, now)

\* C4: a tick whose derived state is non-null and not finished publishes
\* exactly one timer-sync, on the tournament's channel, carrying the derived
\* currentLevel and timeRemaining.
C4_RunningTickPublishesOneTimerSync ==
    (lastOp.op = "tick" /\ ~DerivedOf(lastOp.timer).null
        /\ ~DerivedOf(lastOp.timer).finished) =>
        LET st == DerivedOf(lastOp.timer)
        IN  /\ lastOp.derived = "running"
            /\ Cardinality(TimerSyncs) = 1
            /\ \A k \in TimerSyncs :
                  emitted[k] = Event(tournamentRoom(lastOp.id), "", "timer-sync", "",
                                     st.currentLevel, st.timeRemaining)

\* A tick in the second level of the two-level ladder, one second left.
C4_Witness ==
    /\ lastOp.op = "tick" /\ now = TickPeriod
    /\ emitted = <<Event(tournamentRoom("T1"), "", "timer-sync", "", 2, 1)>>

\* C5: a non-finished tick publishes a level-change event exactly when the
\* derived currentLevel differs from the cachedCurrentLevel of its record;
\* after the tick the record caches the derived level, and the level-change
\* event comes before the tick's timer-sync.
C5_LevelChangeIffDerivedDiffers ==
    [][ (lastOp'.op = "tick" /\ ~DerivedOf(lastOp'.timer).null
            /\ ~DerivedOf(lastOp'.timer).finished) =>
          LET a == timers[lastOp'.timer].active
              st == DerivedOf(lastOp'.timer)
              room == tournamentRoom(lastOp'.id)
              changes == {k \in 1..Len(emitted') : emitted'[k].type = "update-level"}
          IN  /\ (changes # {}) <=> (st.currentLevel # heap[a].cachedCurrentLevel)
              /\ heap'[a].cachedCurrentLevel = st.currentLevel
              /\ changes # {} => emitted' = <<UpdateLevel(room, st), TimerSync(room, st)>>
      ]_vars

\* A tick that found the derived level 1 below the cached level 2.
C5_Witness ==
    /\ lastOp.op = "tick"
    /\ emitted = <<Event(tournamentRoom("T1"), "", "tournament-control", "update-level", 1, 0),
                   Event(tournamentRoom("T1"), "", "timer-sync", "", 1, 1)>>

\* C15: while a record stays in the registry, its cachedCurrentLevel never
\* decreases, whatever current level it was seeded with.
\* (Violated: a tick stores the derived level whenever it differs from the
\* cached one, also when it is lower than the level supplied at seeding.)
C15_CachedLevelNeverDecreases ==
    [][ \A id \in Ids :
            (activeTournaments[id] # 0 /\ activeTournaments'[id] = activeTournaments[id])
                => heap'[activeTournaments[id]].cachedCurrentLevel
                       >= heap[activeTournaments[id]].cachedCurrentLevel
      ]_vars

\* C16: a tick of an interval whose record is not the one the registry holds
\* for its tournament id publishes nothing, changes no registry entry and
\* stops its own interval.
\* (Violated: the callback never looks the registry up; it works on the
\* record it closed over.)
C16_StaleTickDoesNothingAndStops ==
    [][ (lastOp'.op = "tick"
            /\ activeTournaments[lastOp'.id] # timers[lastOp'.timer].active)
          => /\ emitted' = <<>>
             /\ activeTournaments' = activeTournaments
             /\ ~timers'[lastOp'.timer].live
      ]_vars

\* A required field is missing from the body of a webhook command.
Malformed(body) ==
    \/ body.tournamentId = ""
    \/ body.event = ""
    \/ body.event = "tournament-control" /\ (~body.hasData \/ body.type = "")

\* C20: a webhook command with a required field missing publishes nothing
\* and leaves the registry and all periodic tasks unchanged.
\* (Violated: a tournament-control command without data is relayed to the
\* room before the handler fails at data.type.)
C20_MalformedCommandPublishesNothing ==
    [][ \A body \in WebhookBodies :
            (WebhookEmit(body) /\ Malformed(body))
                => /\ emitted' = <<>>
                   /\ UNCHANGED <<heap, timers, activeTournaments>>
      ]_vars

\* C22: a tournament id has a record in the registry exactly when one
\* periodic task is live for it.
\* (Violated through the leak of C1: a second start leaves two live tasks.)
C22_RecordIffOneLiveTimer ==
    \A id \in Ids : (activeTournaments[id] # 0) <=> (Cardinality(LiveTimers(id)) = 1)

\* The step is the completion of fetch k with response t, by either handler.
FetchCompleted(k, t) == JoinFetched(k, t) \/ FallbackFetched(k, t)

\* C25: the completion of a recovery's fetch never replaces a record that a
\* start/resume command installed while the fetch was in flight.
\* (Violated: after the await the handlers store their record without
\* looking at the registry again.)
C25_RecoveryNeverReplacesRecord ==
    [][ \A k \in 1..MaxFetches, t \in ApiResponses :
            (FetchCompleted(k, t) /\ activeTournaments[fetches[k].tournamentId] # 0)
                => activeTournaments'[fetches[k].tournamentId]
                       = activeTournaments[fetches[k].tournamentId]
      ]_vars

\* C26: when a pause/finish command was processed while a fetch for the id
\* was in flight (here: the command is the step before the completion), the
\* id has no record and no live periodic task after the fetch completes.
\* (Violated: the completion seeds the record and starts its task.)
C26_PauseNotLostToFetchInFlight ==
    [][ \A k \in 1..MaxFetches, t \in ApiResponses :
            (FetchCompleted(k, t) /\ lastOp.op = "webhook-pause"
                /\ lastOp.id = fetches[k].tournamentId)
                => /\ activeTournaments'[fetches[k].tournamentId] = 0
                   /\ \A i \in 1..Len(timers') :
                         ~(timers'[i].live
                           /\ timers'[i].tournamentId = fetches[k].tournamentId)
      ]_vars

\* C27: a tick leaves the level sequence of its record as it was.
\* (Violated: calculateState sorts the record's array in place.)
C27_TickLeavesLevelsUnchanged ==
    [][ (lastOp'.op = "tick"
            /\ Reachable(timers[lastOp'.timer].active, activeTournaments', timers'))
          => heap'[timers[lastOp'.timer].active].levels
                 = heap[timers[lastOp'.timer].active].levels
      ]_vars

\* ------------------------------------------------------------------------
\* Properties of recovery (specification SpecRecovery)
\* ------------------------------------------------------------------------
ValidFacts(r) == r.startTime.kind = "iso" /\ r.levels # <<>>

\* The step is the completion of a join-tournament fetch with response t, and
\* it seeded a record with t's facts and started exactly one periodic task.
SeededFrom(k, t) ==
    LET id == fetches[k].tournamentId
        a == Len(heap) + 1
    IN  /\ Len(heap') = a
        /\ activeTournaments'[id] = a
        /\ heap'[a].startTime = t.startTime
        /\ heap'[a].levels = SortLevels(t.levels)
        /\ heap'[a].cachedCurrentLevel = t.currentLevel
        /\ heap'[a].timerInterval = Len(timers')
        /\ timers' = Append(timers, [tournamentId |-> id, active |-> a, live |-> TRUE])

\* Paused: nothing seeded, nothing started.  Running with a valid start time
\* and levels: a record seeded, one task started.
RecoveryGate ==
    \A k \in 1..MaxFetches, t \in RecoveryResponses :
        JoinFetched(k, t) =>
            /\ (t.ok /\ t.status = "Paused") => UNCHANGED <<heap, timers, activeTournaments>>
            /\ (t.ok /\ t.status = "Running" /\ ValidFacts(t)) => SeededFrom(k, t)

\* C12 as stated: recovery against a Paused durable record seeds nothing and
\* starts no task; against a Running one with a valid start time and
\* non-empty levels it seeds a record, starts one task, and the first tick
\* after it publishes a timer-sync.
\* (Violated: when the ladder of the recovered tournament has run out, the
\* first tick publishes the finish event and no timer-sync.)
C12_FirstTickPublishesTimerSync ==
    [][ /\ RecoveryGate
        /\ (lastOp.op = "join-recovered" /\ lastOp'.op = "tick"
                /\ lastOp'.timer = Len(timers)
                /\ ValidFacts(heap[timers[lastOp'.timer].active]))
            => \E k \in 1..Len(emitted') : emitted'[k].event = "timer-sync"
      ]_vars

\* C12 as amended: the recovery gate as stated; and every tick of a recovered
\* record with a valid start time and non-empty levels, the first one
\* included, publishes exactly the finish event when the ladder has run out
\* by then, and otherwise one timer-sync with the derived level and time.
C12_FirstTickPublishesTimerSyncOrFinish ==
    [][ /\ RecoveryGate
        /\ (lastOp'.op = "tick" /\ ValidFacts(heap[timers[lastOp'.timer].active]))
            => LET st == DerivedOf(lastOp'.timer)
                   room == tournamentRoom(lastOp'.id)
               IN  IF st.finished
                   THEN emitted' = <<FinishEvent(room)>>
                   ELSE /\ emitted'[Len(emitted')] = TimerSync(room, st)
                        /\ \A k \in 1..(Len(emitted') - 1) : emitted'[k].event # "timer-sync"
      ]_vars

\* The tick that directly follows a recovery, in the first level.
C12_Witness ==
    /\ lastOp.op = "tick" /\ lastOp.timer = 1 /\ now = 0
    /\ heap[1].cachedCurrentLevel = 1
    /\ emitted = <<Event(tournamentRoom("T1"), "", "timer-sync", "", 1, 1)>>

\* Every recovery seeds cachedCurrentLevel with the current level the durable
\* record reports.
SeedsReportedLevel ==
    \A k \in 1..MaxFetches, t \in RecoveryResponses :
        (JoinFetched(k, t) /\ ShouldRecover(t))
            => heap'[Len(heap) + 1].cachedCurrentLevel = t.currentLevel

\* The step is the first tick of the task a recovery has just started.
FirstTickAfterRecovery ==
    /\ lastOp.op = "join-recovered"
    /\ lastOp'.op = "tick" /\ lastOp'.timer = Len(timers)
    /\ ValidFacts(heap[timers[lastOp'.timer].active])

LevelChangePublished == \E k \in 1..Len(emitted') : emitted'[k].type = "update-level"

\* C29 as stated: a recovered record caches the reported current level, and
\* the first tick after recovery publishes a level-change event exactly when
\* the derived level differs from that reported level.
\* (Violated: when the ladder has run out the first tick publishes the
\* finish event and no level change, whatever the derived level.)
C29_FirstTickLevelChangeIffDiffers ==
    [][ /\ SeedsReportedLevel
        /\ FirstTickAfterRecovery =>
              (LevelChangePublished
                 <=> DerivedOf(lastOp'.timer).currentLevel
                        # heap[timers[lastOp'.timer].active].cachedCurrentLevel)
      ]_vars

\* C29 as amended: a recovered record caches the reported current level; the
\* first tick after recovery, when its derived state is not finished,
\* publishes a level-change event exactly when the derived level differs
\* from the reported level, and when it is finished publishes none.
C29_FirstTickLevelChangeIffDiffersUnlessFinished ==
    [][ /\ SeedsReportedLevel
        /\ FirstTickAfterRecovery =>
              IF DerivedOf(lastOp'.timer).finished
              THEN ~LevelChangePublished
              ELSE LevelChangePublished
                     <=> DerivedOf(lastOp'.timer).currentLevel
                            # heap[timers[lastOp'.timer].active].cachedCurrentLevel
      ]_vars

\* Recovered with reported level 2 while the clock is in level 1: the first
\* tick publishes the change to level 1.
C29_Witness ==
    /\ lastOp.op = "tick" /\ lastOp.timer = 1 /\ now = 0
    /\ heap[1].cachedCurrentLevel = 1
    /\ emitted = <<Event(tournamentRoom("T1"), "", "tournament-control", "update-level", 1, 0),
                   Event(tournamentRoom("T1"), "", "timer-sync", "", 1, 1)>>

\* String.prototype.toLowerCase on the status spellings.
ToLowerCase(status) ==
    IF status \in {"Running", "running", "RUNNING"} THEN "running"
    ELSE IF status = "Paused" THEN "paused" ELSE status

\* C13: a durable record whose status is "running" in any letter case, with a
\* valid start time and levels, is recovered.
\* (Violated: the comparison is t.status === "Running".)
C13_StatusComparedCaseInsensitively ==
    [][ \A k \in 1..MaxFetches, t \in RecoveryResponses :
            (JoinFetched(k, t) /\ t.ok /\ ToLowerCase(t.status) = "running" /\ ValidFacts(t))
                => /\ Len(heap') = Len(heap) + 1
                   /\ activeTournaments'[fetches[k].tournamentId] = Len(heap')
      ]_vars

\* ------------------------------------------------------------------------
\* Properties of the engine of part_000 (specification Spec_part000)
\* ------------------------------------------------------------------------
\* C14: no failure of a notification of the external system propagates out
\* of a tick.
\* (Violated in part_000: the finish branch awaits its PATCH unguarded, and a
\* rejected PATCH leaves the callback, when it resumes, as an unhandled
\* rejection.)
C14_NotificationFailureStaysInsideTick ==
    lastOp.op \in {"tick", "tick-settled"} => lastOp.error = ""

\* C17: a successful start seeds the registry with the returned timing facts,
\* leaves exactly one live periodic task for the id, and publishes the start
\* event with level 1 in the same step, before the new task can tick.
\* (Violated: the start stores a new record with timerInterval null, so the
\* interval of the record it replaces is never cleared.)
C17_StartLeavesOneLiveTask ==
    [][ \A k \in 1..MaxInFlight, t \in StartResponses :
            (StartFetched(k, t) /\ t.ok) =>
                LET id == fetches[k].tournamentId
                    a == activeTournaments'[id]
                IN  /\ a = Len(heap')
                    /\ heap'[a].startTime = t.startTime
                    /\ heap'[a].levels = t.levels
                    /\ Cardinality({i \in 1..Len(timers') :
                                       timers'[i].live /\ timers'[i].tournamentId = id}) = 1
                    /\ emitted' = <<StartEvent(tournamentRoom(id))>>
      ]_vars

\* C18: a pause command stops the task, removes the record, and publishes
\* the pause event also when the PATCH fails, and the failure does not
\* propagate.
\* (Violated: the PATCH is awaited unguarded before the event is published.)
C18_PausePublishedDespiteFailedPatch ==
    /\ lastOp.op = "control-pause" => activeTournaments[lastOp.id] = 0
    /\ lastOp.op = "pause-settled" =>
          /\ emitted = <<PauseEvent(tournamentRoom(lastOp.id))>>
          /\ lastOp.error = ""

\* C19: a pause command for an id that has no registry record (here: no
\* record was ever seeded) leaves the registry and every periodic task
\* unchanged and raises no error.
\* (Violated in part_000 through the unguarded PATCH of C18.)
C19_PauseWithoutRecordIsNoOp ==
    (heap = <<>> /\ lastOp.op \in {"control-pause", "pause-settled"}) =>
        /\ \A id \in Ids : activeTournaments[id] = 0
        /\ timers = <<>>
        /\ lastOp.error = ""

\* C30: when the external system is unavailable (startTournamentApi or
\* getTournamentFromApi resolve to null), the start command and the recovery
\* leave the registry and every periodic task as they were, publish nothing,
\* and raise no error.
C30_UnavailableLeavesEverythingUnchanged ==
    [][ \A k \in 1..MaxInFlight :
            (StartFetched(k, ApiNull) \/ JoinFetched_part000(k, ApiNull))
                => /\ UNCHANGED <<heap, timers, activeTournaments>>
                   /\ emitted' = <<>>
                   /\ lastOp'.error = ""
      ]_vars

\* A start fails while the tournament is running: its record and its task stay.
C30_Witness ==
    /\ lastOp.op = "start-failed"
    /\ activeTournaments[lastOp.id] # 0
    /\ Cardinality(LiveTimers(lastOp.id)) = 1
    /\ emitted = <<>>

\* ------------------------------------------------------------------------
\* Properties of a tournament left to run (specification SpecLive)
\* ------------------------------------------------------------------------
TerminalEventPublished(id) ==
    /\ lastOp.op = "tick" /\ lastOp.id = id /\ lastOp.derived = "finished"
    /\ emitted = <<FinishEvent(tournamentRoom(id))>>
    /\ activeTournaments[id] = 0

\* C21: a tournament started with a valid start time and a non-empty level
\* list, ticking as time advances and never paused, eventually publishes its
\* finish event and has its registry record removed; a 60 s ladder started
\* at 0 finishes at a tick exactly when 60 s have passed, not before.
C21_RunningTournamentEventuallyFinishes ==
    /\ \A id \in Ids :
          (activeTournaments[id] # 0 /\ ValidFacts(heap[activeTournaments[id]]))
              ~> TerminalEventPublished(id)
    /\ [][ (lastOp'.op = "tick" /\ ValidFacts(heap[timers[lastOp'.timer].active]))
              => /\ (lastOp'.derived = "finished") <=> (now >= LiveEnd)
                 /\ lastOp'.derived = "finished" =>
                       /\ emitted' = <<FinishEvent(tournamentRoom(lastOp'.id))>>
                       /\ activeTournaments'[lastOp'.id] = 0
          ]_vars

\* The tick at 60 s: finish published, no record left.
C21_Witness ==
    /\ now = LiveEnd /\ Len(heap) = 1
    /\ TerminalEventPublished("T1")

\* ------------------------------------------------------------------------
\* Properties of overlapping recoveries (specification SpecRace)
\* ------------------------------------------------------------------------
\* C24: when two join-tournament fetches for the same id overlap, then after
\* both have completed (the last one recovering) the id has one record and
\* exactly one live periodic task.
\* (Violated: each completion stores a new record with timerInterval null and
\* starts a task; the task of the first completion is never cleared.)
C24_OverlappingJoinsLeaveOneLiveTimer ==
    (fetches = <<>> /\ lastOp.op = "join-recovered") =>
        /\ activeTournaments[lastOp.id] # 0
        /\ Cardinality(LiveTimers(lastOp.id)) = 1

\* ------------------------------------------------------------------------
\* Properties of display pairing (specification SpecDisplays)
\* ------------------------------------------------------------------------
\* C23: link-display with a code currently registered by a connected display
\* adds that display's connection, and no other, to the room of the given
\* tournament, leaves every other membership as it was, and sends
\* display-linked to that connection only; link-display with a code that is
\* not registered changes no membership and sends nothing.
C23_LinkDisplayJoinsExactlyTheDisplay ==
    [][ \A sock \in Connections, displayId \in DisplayIds, tournamentId \in LinkTournaments :
            LinkDisplay(sock, displayId, tournamentId) =>
                LET display == displays[displayId]
                    room == tournamentRoom(tournamentId)
                IN  /\ (display # "" /\ sockets[display] = "open") =>
                          /\ room \in rooms'[display]
                          /\ \A c \in Connections,
                                r \in {tournamentRoom(t) : t \in LinkTournaments} :
                                (c # display \/ r # room)
                                    => (r \in rooms'[c] <=> r \in rooms[c])
                          /\ Len(emitted') = 1
                          /\ emitted'[1].event = "display-linked"
                          /\ emitted'[1].sock = display
                          /\ emitted'[1].room = room
                    /\ display = "" => (rooms' = rooms /\ emitted' = <<>>)
      ]_vars

\* One connection linked the display of another one to T2: the display, and
\* only the display, is in T2's room and was sent display-linked.
C23_Witness ==
    \E display \in Connections :
        /\ lastOp.op = "link-display"
        /\ emitted = <<DisplayLinked(display, "T2")>>
        /\ rooms[display] = {tournamentRoom("T2")}
        /\ \E c \in Connections \ {display} : sockets[c] = "open" /\ rooms[c] = {}

\* ------------------------------------------------------------------------
\* Properties of two tournaments side by side (specification SpecTwo)
\* ------------------------------------------------------------------------
\* C31: a command or a tick for one tournament id leaves, for every other id,
\* the registry entry, the record (its cachedCurrentLevel with it) and every
\* periodic task as they were, installs no task for it, and publishes nothing
\* on its channel.
C31_OtherTournamentsUntouched ==
    [][ \A id \in AllIds, other \in AllIds :
            (lastOp'.id = id /\ other # id /\ lastOp'.op # "time") =>
                /\ activeTournaments'[other] = activeTournaments[other]
                /\ activeTournaments[other] # 0 =>
                      heap'[activeTournaments[other]] = heap[activeTournaments[other]]
                /\ \A i \in 1..Len(timers') :
                      timers'[i].tournamentId = other =>
                          (i <= Len(timers) /\ timers'[i] = timers[i])
                /\ \A k \in 1..Len(emitted') : emitted'[k].room # tournamentRoom(other)
      ]_vars

\* T1 finished by a tick while T2 has its record, at a level its own ticks
\* cached, and its task.
C31_Witness ==
    /\ lastOp.op = "tick" /\ lastOp.id = "T1" /\ lastOp.derived = "finished"
    /\ activeTournaments["T1"] = 0
    /\ activeTournaments["T2"] # 0
    /\ heap[activeTournaments["T2"]].cachedCurrentLevel = 2
    /\ Cardinality(LiveTimers("T2")) = 1

\* ------------------------------------------------------------------------
\* Properties of the immediate state sent to a joining subscriber
\* (specification Spec_part000)
\* ------------------------------------------------------------------------
\* What the join may send to connection sock when the derived state is st:
\* one timer-sync with the derived level and remaining seconds when st is
\* running, no timer-sync when st is finished or null.
JoinSyncAsClaimed(st, sock, em) ==
    LET syncs == {k \in 1..Len(em) : em[k].event = "timer-sync" /\ em[k].sock = sock}
    IN IF ~st.null /\ ~st.finished
       THEN /\ Cardinality(syncs) = 1
            /\ \A k \in syncs : /\ em[k].level = st.currentLevel
                                 /\ em[k].timeLeft = st.timeRemaining
       ELSE syncs = {}

\* C32: a subscriber that joins a tournament whose record is in the registry,
\* or was just recovered, is sent one timer-sync with the derived level and
\* remaining seconds when the derived state is not finished, and no
\* timer-sync when it is finished or null.
\* (Violated in part_000: its join sends update-level and timer-sync whenever
\* the derived state is not null, also when it is finished.)
C32_JoinSendsTimerSyncIffRunning ==
    [][ /\ \A sock \in Sockets, id \in Ids :
              (JoinTournament_part000(sock, id) /\ activeTournaments[id] # 0) =>
                  JoinSyncAsClaimed(
                      calculateState_part000(heap[activeTournaments[id]].startTime,
                                             heap[activeTournaments[id]].levels, now),
                      sock, emitted')
        /\ \A k \in 1..MaxInFlight, t \in ApiResponses :
              (JoinFetched_part000(k, t) /\ ShouldRecover(t)) =>
                  JoinSyncAsClaimed(calculateState_part000(t.startTime, t.levels, now),
                                    fetches[k].sock, emitted')
      ]_vars

\* ------------------------------------------------------------------------
\* Properties of the engine of part_001 (specification Spec_part001)
\* ------------------------------------------------------------------------
\* C33: in the target-end-time variant a tick of a record whose targetEndTime
\* Date turns into an instant (an ISO string, or null: the epoch) publishes one
\* timer-sync with the record's level and
\* timeLeft = max(0, ceil((targetEndTime - now) / 1 s)); the tick at which
\* this is 0 cancels the task, and no other tick does; a cancelled task never
\* runs again; a tick leaves the registry and the record as they were; and a
\* record whose task has cancelled itself stays in the registry, unchanged,
\* until a pause/finish command removes it or a start replaces it.
\* (Violated: a join-tournament that found the registry empty and is waiting
\* for the API sets its recovered record over whatever a start installed in
\* the meantime, so a record whose countdown ended is replaced by a step that
\* is neither a pause/finish nor a start.)
C33_TickCountsDownCancelsAndRecordStays ==
    /\ [][ lastOp'.op = "tick" =>
              LET i == lastOp'.timer
                  active == heap[timers[i].active]
                  ms == IF active.targetEndTime.ms - now > 0
                        THEN active.targetEndTime.ms - now ELSE 0
              IN  /\ timers[i].live
                  /\ activeTournaments' = activeTournaments
                  /\ \A id \in Ids : activeTournaments[id] # 0 =>
                        heap'[activeTournaments[id]] = heap[activeTournaments[id]]
                  /\ active.targetEndTime.kind \in {"iso", "null"} =>
                        /\ Len(emitted') = 1
                        /\ emitted'[1].event = "timer-sync"
                        /\ emitted'[1].room = tournamentRoom(lastOp'.id)
                        /\ emitted'[1].level = active.currentLevel
                        /\ IsCeilSeconds(emitted'[1].timeLeft, ms)
                        /\ timers'[i].live <=> emitted'[1].timeLeft # 0
          ]_vars
    /\ [][ \A i \in 1..Len(timers) : ~timers[i].live => ~timers'[i].live ]_vars
    /\ [][ \A id \in Ids :
              LET a == activeTournaments[id]
              IN  ( /\ a # 0
                    /\ heap[a].timerInterval # 0
                    /\ ~timers[heap[a].timerInterval].live
                    /\ activeTournaments'[id] # a \/ heap'[a] # heap[a] )
                  => lastOp'.op \in {"webhook-pause", "webhook-start"} /\ lastOp'.id = id
          ]_vars

\* C34: once a connection has disconnected, no display code maps to it,
\* however many codes it registered.
\* (Violated: the disconnect handler of the engine is empty, so every code of
\* the connection stays in the map.)
C34_DisconnectClearsDisplayCodes ==
    \A sock \in Connections :
        sockets[sock] = "closed" => \A id \in DisplayIds : displays[id] # sock

\* ------------------------------------------------------------------------
\* Properties of tournaments without levels (specification SpecEmpty)
\* ------------------------------------------------------------------------
\* C35: the periodic task of a record seeded with an empty level list stays
\* alive: each of its ticks publishes nothing and changes nothing, and only
\* a pause/finish command cancels the task or removes the record from the
\* registry.
\* (Violated through the leak of C1: the interval of a record this one
\* replaced finishes and deletes the registry entry of the id.)
C35_EmptyLevelsTaskIdlesUntilPaused ==
    [][ \A i \in 1..Len(timers) :
            (timers[i].live /\ heap[timers[i].active].levels = <<>>) =>
                /\ (lastOp'.op = "tick" /\ lastOp'.timer = i) =>
                      /\ emitted' = <<>>
                      /\ UNCHANGED <<heap, timers, activeTournaments>>
                /\ ~timers'[i].live => lastOp'.op = "webhook-pause"
                /\ (activeTournaments[timers[i].tournamentId] = timers[i].active
                      /\ activeTournaments'[timers[i].tournamentId] = 0)
                        => lastOp'.op = "webhook-pause"
      ]_vars

====
